---- MODULE Spec2Model ----
(***************************************************************************)
(* State-machine model of the post list store (usePostsListStore), the     *)
(* post details store (usePostDetailsStore) and the coordinator            *)
(* (usePostsCoordinator) of the news-project front end.                    *)
(*                                                                         *)
(* Every asynchronous function is split at its awaits: the synchronous     *)
(* prefix is one action (the call), each continuation after an await is    *)
(* one action (the settlement of the awaited repository request).          *)
(* Requests in flight are records that hold what the JavaScript closure    *)
(* holds: the arguments, the values read before the await and the abort    *)
(* signal.                                                                 *)
(***************************************************************************)
EXTENDS Integers, Sequences, FiniteSets, TLC

(***************************************************************************)
(* Bounds of the model.                                                    *)
(***************************************************************************)
\* Number of posts the repository holds initially (ids 1..MaxPosts).
MaxPosts == 2
\* Page size of the list. POSTS_PAGE_LIMIT is 9 in the source; the model
\* scales it down so that MaxPosts posts span several pages.
PageLimit == 1
\* Largest page number loadPage is called with.
MaxPage == 2
\* Largest number of list fetches in flight at once.
MaxListReqs == 3
\* Largest number of calls in flight, and of positions loaded, where a call
\* canceled by the next one is followed to its settlement.
MaxCancelReqs == 2
\* Largest number of loadPostForModal calls in flight at once.
MaxModalReqs == 2
\* Largest number of incrementViews calls in flight at once, except where
\* the overlap of such calls is the subject (MaxViewCalls).
MaxViewReqs == 1
MaxViewCalls == 2
\* Largest number of loadPostForModal calls in flight where the view count
\* is the subject.
MaxViewLoads == 1

\* Encoding of null / undefined for numeric fields.
Null == -1

PostIds == 1 .. MaxPosts

\* PostSearchField
SEARCH_FIELDS == {"title", "body", "userId"}
\* Fields the model calls search with ("none" is an omitted argument).
FieldInputs == {"userId", "none"}
\* Raw query strings the model calls search with, and what trim() gives.
RawQueries == {"", " 1 "}
Trim(q) == IF q = " 1 " THEN "1" ELSE q

Max(a, b) == IF a >= b THEN a ELSE b
Min(a, b) == IF a <= b THEN a ELSE b
\* Math.ceil(a / b) for a >= 0, b > 0
CeilDiv(a, b) == (a + b - 1) \div b

(***************************************************************************)
(* The repository (json-server behind postApi): an ordered collection of   *)
(* posts. The text of a post is abstracted to what the searches see.       *)
(***************************************************************************)
UserIdOf(id) == id % 2
TitleLike(id, q) == IF q = "1" THEN id >= 2 ELSE id = 1
BodyLike(id, q) == IF q = "1" THEN id <= 2 ELSE id = 3
IsNumeric(q) == q = "1"
NumberOf(q) == 1

\* Texts of a title or a body, and the tag lists the editor produces.
Texts == {"old", "new"}
TagInputs == {<<>>, <<" x ", "">>}

NewPost(id) ==
  [id |-> id, title |-> "old", body |-> "old", tags |-> <<>>,
   views |-> 0, reactions |-> [likes |-> 0, dislikes |-> 0]]

VARIABLES
  repo,          \* server side: sequence of posts in the server's order
  \* ---- usePostsListStore
  posts, page, query, searchField, total, totalPages, isLoading,
  listStorage,   \* sessionStorage['posts_list_store_state']: <<>> or <<blob>>
  listReqs,      \* fetchPosts calls awaiting getPosts, in issue order
  lastIssued,    \* history: the parameters of the last fetch issued
  \* ---- usePostDetailsStore
  modalPostLoading, modalRequestedPostId, modalPostPosition,
  postDetailsCache,
  viewedPostIds,
  viewedStorage, \* sessionStorage['post_details_viewed_ids']
  modalReqs,     \* loadPostForModal calls awaiting the repository
  viewReqs,      \* incrementViews calls awaiting patchPostViews
  userReactions, \* postId -> "like" | "dislike" | "none" (no key)
  reactionsStorage, \* sessionStorage['post_user_reactions']: key -> map
  loginUser,     \* useLoginUserStore().user?.id ?? null
  reactReqs,     \* toggleReaction calls awaiting patchPostReactions
  modalNewPostDraft, \* <<>> (null) or <<the draft post>>
  originalTitle, originalBody, originalTags,
  editedPostIds,
  editedStorage, \* sessionStorage['post_details_edited_ids']
  likedCommentIds,
  likedStorage,  \* sessionStorage['post_liked_comments']: key -> ids
  commentLikes,  \* server side: comment id -> likes
  saveReqs,      \* saveChanges calls awaiting patchPost
  likeReqs,      \* toggleCommentLike calls awaiting patchCommentLikes
  createReqs,    \* createModalPost calls awaiting createPost
  \* ---- the modal component
  isEditing,
  modalView,     \* "closed", "open", or "leaving": isPostModalOpen is false
                 \* and the dialog's after-leave has not run yet
  \* ---- usePostsCoordinator
  delReqs,       \* deletePost calls awaiting deletePostApi
  clearedPositions, \* history: the positions the last search or refresh
                 \* removed from the cache and no call has asked for since
  lastOp         \* history: what the last step did

listVars == <<posts, page, query, searchField, total, totalPages, isLoading,
              listStorage, listReqs, lastIssued>>
modalVars == <<modalPostLoading, modalRequestedPostId, modalPostPosition, modalReqs>>
viewVars == <<viewedPostIds, viewedStorage, viewReqs>>
detailVars == <<modalVars, postDetailsCache, viewVars>>
userVars == <<userReactions, reactionsStorage, loginUser>>
reactVars == <<userVars, reactReqs>>
coordVars == <<delReqs, clearedPositions>>
snapshotVars == <<originalTitle, originalBody, originalTags>>
editedVars == <<editedPostIds, editedStorage>>
likeVars == <<likedCommentIds, likedStorage, likeReqs, commentLikes>>
saveVars == <<saveReqs, createReqs>>
\* The state of editing, comment likes and saving, without / with the draft.
viewState == <<isEditing, modalView>>
restVars == <<snapshotVars, editedVars, likeVars, saveVars, viewState>>
moreVars == <<restVars, modalNewPostDraft>>
vars == <<repo, listVars, detailVars, reactVars, coordVars, moreVars, lastOp>>

(***************************************************************************)
(* postApi.getPosts                                                        *)
(***************************************************************************)
\* Faulty variant of the route below: every query is sent to the backend.
resolvePostListRoute_AlwaysRemote(q, field) == "remote"

\* resolvePostListRoute: "empty" or "remote"
resolvePostListRoute(q, field) ==
  IF Trim(q) = "" THEN "remote"
  ELSE IF field = "userId" /\ ~IsNumeric(Trim(q)) THEN "empty"
  ELSE "remote"

Matches(p, q, field) ==
  IF Trim(q) = "" THEN TRUE
  ELSE IF field = "title" THEN TitleLike(p.id, Trim(q))
  ELSE IF field = "body" THEN BodyLike(p.id, Trim(q))
  ELSE UserIdOf(p.id) = NumberOf(Trim(q))

RECURSIVE Filter(_, _, _)
Filter(s, q, field) ==
  IF s = <<>> THEN <<>>
  ELSE IF Matches(Head(s), q, field)
       THEN <<Head(s)>> \o Filter(Tail(s), q, field)
       ELSE Filter(Tail(s), q, field)

\* json-server pagination: items (_page - 1) * _limit + 1 .. _page * _limit
PageOf(s, pg, lim) ==
  SubSeq(s, Min((pg - 1) * lim + 1, Len(s) + 1), Min(pg * lim, Len(s)))

emptyResponse == [posts |-> <<>>, total |-> Null, totalPages |-> 1]

\* getPosts on the server state r; withLink: the response carries a Link
\* header with rel="last".
getPosts(r, lim, pg, q, field, withLink) ==
  IF resolvePostListRoute(q, field) = "empty" THEN emptyResponse
  ELSE LET all == Filter(r, q, field) IN
       [posts |-> PageOf(all, pg, lim),
        total |-> Len(all),
        totalPages |-> IF withLink THEN Max(1, CeilDiv(Len(all), lim)) ELSE Null]

(***************************************************************************)
(* usePostsListStore                                                       *)
(***************************************************************************)
pagesAmount == Max(1, totalPages)

\* recalculateTotalPages, as a function of total
recalculateTotalPages(t) == Max(1, CeilDiv(t, PageLimit))

\* saveToStorage: the blob written
StoredPostsState(ps, pg, q, f, t, tp) ==
  <<[posts |-> ps, page |-> pg, query |-> q, searchField |-> f,
     total |-> t, totalPages |-> tp]>>

\* sessionStorage that has no room left: every setItem throws
\* QuotaExceededError. The model holds this condition of the storage in the
\* item of the list store, which then never changes.
QuotaExceeded == <<[quota |-> "exceeded"]>>
setItemThrows == listStorage = QuotaExceeded

\* sessionStorage.setItem(key, value) inside the try of a save: the item
\* afterwards.
setItem(item, value) == IF setItemThrows THEN item ELSE value

\* Faulty variant of the catch below: the error of setItem leaves the save.
saveCatches_Never == FALSE

\* The try / catch around setItem in saveToStorage and in the save of the
\* session storage helper: the error is logged as a warning and dropped.
saveCatches == TRUE

\* A save throws to the code that called it.
saveThrows == setItemThrows /\ ~saveCatches

\* What fetchPosts stores from a response.
AppliedTotal(data) == IF data.total # Null THEN data.total ELSE Len(data.posts)
AppliedTotalPages(data) ==
  IF data.totalPages # Null THEN data.totalPages
  ELSE recalculateTotalPages(AppliedTotal(data))

\* Faulty variant of the abort below: the signal is left as it is.
AbortCurrent_None(reqs) == reqs

\* requestControllerRef.current.abort(): the signal of the controller held
\* in the ref becomes aborted.
AbortCurrent(reqs) ==
  [i \in DOMAIN reqs |->
     IF reqs[i].cur THEN [reqs[i] EXCEPT !.aborted = TRUE] ELSE reqs[i]]

\* requestControllerRef.current = null
DropCurrent(reqs) == [i \in DOMAIN reqs |-> [reqs[i] EXCEPT !.cur = FALSE]]

RemoveAt(s, i) == SubSeq(s, 1, i - 1) \o SubSeq(s, i + 1, Len(s))

\* fetchPosts up to its await, with this.page, this.query, this.searchField
\* already set by the caller to pg0, q, f. del (history): the deletePost
\* call that awaits this fetch, <<>> when there is none.
FetchPostsIssue(pg0, q, f, resetPage) ==
  LET pg == IF resetPage THEN 1 ELSE pg0
      req == [page |-> pg, query |-> q, field |-> f,
              aborted |-> FALSE, cur |-> TRUE, del |-> <<>>]
  IN /\ page' = pg
     /\ query' = q
     /\ searchField' = f
     /\ isLoading' = TRUE
     /\ listReqs' = Append(DropCurrent(AbortCurrent(listReqs)), req)
     /\ lastIssued' = <<[page |-> pg, query |-> q, field |-> f, status |-> "pending"]>>
     /\ UNCHANGED <<posts, total, totalPages, listStorage>>

\* listStore.searchPosts(rawQuery, field)
ListSearchPosts(rawQuery, field) ==
  FetchPostsIssue(page, Trim(rawQuery),
                  IF field = "none" THEN searchField ELSE field, TRUE)

\* listStore.loadPage(n)
ListLoadPage(n) == FetchPostsIssue(n, query, searchField, FALSE)

\* listStore.refreshPosts()
ListRefreshPosts == FetchPostsIssue(page, query, searchField, FALSE)

ListOutcomes == {"ok", "abort", "notfound", "error"}

\* The request is the last one issued (history).
IsLatest(i) == i = Len(listReqs) /\ lastIssued # <<>> /\ lastIssued[1].status = "pending"

\* The continuation of fetchPosts after `await getPosts(...)`: the try
\* body, the catch and the finally.
FetchPostsSettle(i, outcome, withLink) ==
  LET req == listReqs[i]
      data == getPosts(repo, PageLimit, req.page, req.query, req.field, withLink)
  IN /\ i \in DOMAIN listReqs
     /\ outcome = "abort" => req.aborted
     /\ IF outcome = "ok" /\ ~req.aborted
        THEN /\ posts' = data.posts
             /\ total' = AppliedTotal(data)
             /\ totalPages' = AppliedTotalPages(data)
             /\ page' = page
             /\ listStorage' = setItem(listStorage,
                                       StoredPostsState(data.posts, page, query, searchField,
                                                        AppliedTotal(data),
                                                        AppliedTotalPages(data)))
        ELSE IF outcome = "notfound" /\ searchField = "userId"
        THEN /\ posts' = <<>>
             /\ page' = 1
             /\ total' = 0
             /\ totalPages' = recalculateTotalPages(0)
             /\ listStorage' = setItem(listStorage,
                                       StoredPostsState(<<>>, 1, query, searchField, 0,
                                                        recalculateTotalPages(0)))
        ELSE UNCHANGED <<posts, page, total, totalPages, listStorage>>
     /\ isLoading' = FALSE
     /\ listReqs' = DropCurrent(RemoveAt(listReqs, i))
     /\ lastIssued' = IF IsLatest(i)
                      THEN <<[lastIssued[1] EXCEPT
                                !.status = IF outcome = "ok" THEN "ok" ELSE "failed"]>>
                      ELSE lastIssued
     /\ UNCHANGED <<query, searchField>>

(***************************************************************************)
(* usePostsListStore, called from the details store                        *)
(***************************************************************************)
SetViews(ps, id, v) ==
  [i \in DOMAIN ps |->
     IF ps[i].id = id /\ \A j \in 1 .. i - 1 : ps[j].id # id
     THEN [ps[i] EXCEPT !.views = v] ELSE ps[i]]

HasPost(ps, id) == \E i \in DOMAIN ps : ps[i].id = id

\* updatePostInList(postId, {views}): posts and the persisted snapshot after it
updatePostInListPosts(id, v) == IF HasPost(posts, id) THEN SetViews(posts, id, v) ELSE posts
updatePostInListStorage(id, v) ==
  IF HasPost(posts, id)
  THEN StoredPostsState(SetViews(posts, id, v), page, query, searchField, total, totalPages)
  ELSE listStorage

(***************************************************************************)
(* usePostDetailsStore                                                     *)
(***************************************************************************)
\* postDetailsCache.find(c => c.post.id === id) as an index, 0 when absent
CacheIndexById(cache, id) ==
  IF \E i \in DOMAIN cache : cache[i].post.id = id
  THEN CHOOSE i \in DOMAIN cache :
         cache[i].post.id = id /\ \A j \in 1 .. i - 1 : cache[j].post.id # id
  ELSE 0

\* postDetailsCache.find(c => c.position === position) as an index
CacheIndexByPosition(cache, pos) ==
  IF \E i \in DOMAIN cache : cache[i].position = pos
  THEN CHOOSE i \in DOMAIN cache :
         cache[i].position = pos /\ \A j \in 1 .. i - 1 : cache[j].position # pos
  ELSE 0

\* getter cachedEntry, as an index into the cache
cachedEntry ==
  IF modalRequestedPostId = Null THEN 0
  ELSE CacheIndexById(postDetailsCache, modalRequestedPostId)

InSeq(x, s) == \E i \in DOMAIN s : s[i] = x

\* incrementViews(postId) up to its await: the patchPostViews calls in
\* flight afterwards. The call holds the cache entry it found (attached:
\* that entry is still the one in the cache) and the view count it read.
incrementViews(cache, reqs, postId) ==
  IF InSeq(postId, viewedPostIds) THEN reqs
  ELSE LET idx == CacheIndexById(cache, postId) IN
       Append(reqs,
              [postId |-> postId,
               currentViews |-> IF idx # 0 THEN cache[idx].post.views ELSE 0,
               attached |-> idx # 0])

\* The flush of the view count that loadPostForModal and clearModalPost
\* start with.
FlushViewsOn(cache, reqs) ==
  IF modalRequestedPostId # Null THEN incrementViews(cache, reqs, modalRequestedPostId) ELSE reqs
FlushViews == FlushViewsOn(postDetailsCache, viewReqs)

\* A direct call of incrementViews(postId).
IncrementViewsCall(postId) ==
  /\ viewReqs' = incrementViews(postDetailsCache, viewReqs, postId)
  /\ lastOp' = IF InSeq(postId, viewedPostIds) THEN "views:skip" ELSE "views:call"
  /\ UNCHANGED <<repo, listVars, modalVars, postDetailsCache, viewedPostIds, viewedStorage,
                 reactVars, coordVars, moreVars>>

RepoIndex(r, id) ==
  IF \E i \in DOMAIN r : r[i].id = id THEN CHOOSE i \in DOMAIN r : r[i].id = id ELSE 0

\* The continuation of incrementViews after `await patchPostViews(...)`.
\* ok: the repository accepted the update.
IncrementViewsSettle(i, ok) ==
  LET req == viewReqs[i]
      newViews == req.currentViews + 1
      ridx == RepoIndex(repo, req.postId)
      cidx == CacheIndexById(postDetailsCache, req.postId)
  IN /\ i \in DOMAIN viewReqs
     /\ ok => ridx # 0
     /\ viewReqs' = RemoveAt(viewReqs, i)
     /\ IF ok
        THEN /\ repo' = [repo EXCEPT ![ridx].views = newViews]
             /\ postDetailsCache' =
                  IF req.attached
                  THEN [postDetailsCache EXCEPT ![cidx].post.views = newViews]
                  ELSE postDetailsCache
             /\ posts' = updatePostInListPosts(req.postId, newViews)
             /\ listStorage' = setItem(listStorage,
                                       updatePostInListStorage(req.postId, newViews))
             \* an error thrown by updatePostInList or by the save of the
             \* viewed ids ends the try block where it is thrown
             /\ viewedPostIds' = IF HasPost(posts, req.postId) /\ saveThrows
                                 THEN viewedPostIds
                                 ELSE Append(viewedPostIds, req.postId)
             /\ viewedStorage' = IF HasPost(posts, req.postId) /\ saveThrows
                                 THEN viewedStorage
                                 ELSE setItem(viewedStorage,
                                              <<Append(viewedPostIds, req.postId)>>)
        ELSE UNCHANGED <<repo, postDetailsCache, posts, listStorage,
                         viewedPostIds, viewedStorage>>
     /\ lastOp' = IF ok THEN "views:ok" ELSE "views:failed"
     /\ UNCHANGED <<page, query, searchField, total, totalPages, isLoading,
                    listReqs, lastIssued, modalVars, reactVars, coordVars, moreVars>>

\* Faulty variant of the lookup below: never by position.
CachedFor_IdOnly(position, postId) ==
  IF postId # Null THEN CacheIndexById(postDetailsCache, postId) ELSE 0

\* The lookup loadPostForModal starts with: by id when postId is given, by
\* position otherwise. An index into the cache, 0 when nothing is cached.
CachedFor(position, postId) ==
  IF postId # Null
  THEN CacheIndexById(postDetailsCache, postId)
  ELSE CacheIndexByPosition(postDetailsCache, position)

\* A later call of loadPostForModal has been made (history).
Supersede(reqs) == [i \in DOMAIN reqs |-> [reqs[i] EXCEPT !.superseded = TRUE]]

\* loadPostForModal(position, postId, searchContext) up to its first await
\* (or to its return on a cache hit). postId = Null: navigation by position.
loadPostForModal(position, postId, ctxQuery, ctxField) ==
  LET idx == CachedFor(position, postId)
      aborted == Supersede(AbortCurrent(modalReqs))
      req == [position |-> position, postId |-> postId,
              query |-> ctxQuery, field |-> ctxField,
              phase |-> "post", post |-> <<>>,
              aborted |-> FALSE, cur |-> TRUE, superseded |-> FALSE, stale |-> FALSE,
              refetch |-> position \in clearedPositions]
  IN /\ viewReqs' = FlushViews
     /\ modalPostPosition' = position
     /\ IF idx # 0
        THEN /\ modalRequestedPostId' = postDetailsCache[idx].post.id
             /\ modalPostLoading' = FALSE
             /\ modalReqs' = DropCurrent(aborted)
             /\ lastOp' = IF postId # Null THEN "load:hitId" ELSE "load:hitPosition"
        ELSE /\ modalRequestedPostId' = postId
             /\ modalPostLoading' = TRUE
             /\ modalReqs' = Append(DropCurrent(aborted), req)
             /\ lastOp' = "load:fetch"
     /\ UNCHANGED <<postDetailsCache, viewedPostIds, viewedStorage>>

ModalOutcomes == {"ok", "abort", "error"}

\* The post the primary fetch of a request returns from the server state:
\* <<>> when there is none.
PrimaryPost(req) ==
  IF req.postId # Null
  THEN IF RepoIndex(repo, req.postId) # 0 THEN <<repo[RepoIndex(repo, req.postId)]>> ELSE <<>>
  ELSE getPosts(repo, 1, req.position, req.query, req.field, TRUE).posts

\* Faulty variant of the finally block below: the flag is cleared only for
\* the post that is still the requested one.
FinallyLoading_OnlyRequested(req, requested, loading) ==
  IF req.postId # Null /\ requested = req.postId THEN FALSE ELSE loading

\* The finally block of loadPostForModal, given the requested id it sees.
FinallyLoading(req, requested, loading) ==
  IF req.postId # Null
  THEN (IF requested = req.postId THEN FALSE ELSE loading)
  ELSE FALSE

\* requestControllerRef.current === requestController ? null : unchanged,
\* and the call leaves the requests in flight.
FinishModalReq(i) == RemoveAt(modalReqs, i)

\* The continuation of loadPostForModal after `await getPostById(...)` or
\* `await getPosts(...)`.
LoadPostSettlePrimary(i, outcome) ==
  LET req == modalReqs[i]
      found == PrimaryPost(req)
      discarded == req.aborted \/ (req.postId # Null /\ modalRequestedPostId # req.postId)
  IN /\ i \in DOMAIN modalReqs
     /\ req.phase = "post"
     /\ outcome = "abort" => req.aborted
     \* getPostById of a post the server does not hold fails (404)
     /\ (outcome = "ok" /\ req.postId # Null) => found # <<>>
     /\ IF outcome = "ok" /\ ~discarded /\ found # <<>>
        THEN /\ modalReqs' = [modalReqs EXCEPT ![i].phase = "extras", ![i].post = found]
             /\ modalPostLoading' = modalPostLoading
             /\ lastOp' = "load:primary"
        ELSE /\ modalReqs' = FinishModalReq(i)
             /\ modalPostLoading' = FinallyLoading(req, modalRequestedPostId, modalPostLoading)
             /\ lastOp' = IF req.aborted \/ req.superseded THEN "load:settleCanceled"
                          ELSE IF outcome = "ok" THEN "load:noPost" ELSE "load:failed"
     /\ UNCHANGED <<modalRequestedPostId, modalPostPosition, postDetailsCache, viewVars>>

\* Faulty variant of the test below: the abort signal is not looked at.
ExtrasDiscarded_Never(req) == FALSE

\* `if (signal.aborted) return` after the author and comments have settled.
ExtrasDiscarded(req) == req.aborted

\* The comments the server holds for a post: one comment, with the id of
\* the post, for each of the initial posts.
CommentsOf(id) ==
  IF id \in DOMAIN commentLikes THEN <<[id |-> id, likes |-> commentLikes[id]]>> ELSE <<>>

\* Faulty variant of the continuation below: the author and the comments
\* are awaited together, and the failure of either fails the load.
LoadPostSettleExtras_AllOrNothing(i, userOk, commentsOk) ==
  LET req == modalReqs[i]
      post == req.post[1]
      entry == [post |-> post,
                user |-> IF UserIdOf(post.id) # 0 THEN UserIdOf(post.id) ELSE Null,
                comments |-> CommentsOf(post.id),
                position |-> req.position]
  IN /\ i \in DOMAIN modalReqs
     /\ req.phase = "extras"
     /\ modalReqs' = FinishModalReq(i)
     /\ IF ExtrasDiscarded(req) \/ ~userOk \/ ~commentsOk
        THEN /\ UNCHANGED <<postDetailsCache, modalRequestedPostId, modalPostPosition>>
             /\ modalPostLoading' = FinallyLoading(req, modalRequestedPostId, modalPostLoading)
             /\ lastOp' = IF ExtrasDiscarded(req) THEN "load:settleCanceled" ELSE "load:failed"
        ELSE /\ postDetailsCache' = Append(postDetailsCache, entry)
             /\ modalRequestedPostId' = post.id
             /\ modalPostPosition' = req.position
             /\ modalPostLoading' = FinallyLoading(req, post.id, modalPostLoading)
             /\ lastOp' = IF req.superseded THEN "load:settleCanceled" ELSE "load:cached"
     /\ UNCHANGED viewVars

\* The continuation of loadPostForModal after `await Promise.allSettled(...)`.
LoadPostSettleExtras(i, userOk, commentsOk) ==
  LET req == modalReqs[i]
      post == req.post[1]
      entry == [post |-> post,
                user |-> IF userOk /\ UserIdOf(post.id) # 0 THEN UserIdOf(post.id) ELSE Null,
                comments |-> IF commentsOk THEN CommentsOf(post.id) ELSE <<>>,
                position |-> req.position]
  IN /\ i \in DOMAIN modalReqs
     /\ req.phase = "extras"
     /\ modalReqs' = FinishModalReq(i)
     /\ IF ExtrasDiscarded(req)
        THEN /\ UNCHANGED <<postDetailsCache, modalRequestedPostId, modalPostPosition>>
             /\ modalPostLoading' = FinallyLoading(req, modalRequestedPostId, modalPostLoading)
             /\ lastOp' = "load:settleCanceled"
        ELSE /\ postDetailsCache' = Append(postDetailsCache, entry)
             /\ modalRequestedPostId' = post.id
             /\ modalPostPosition' = req.position
             /\ modalPostLoading' = FinallyLoading(req, post.id, modalPostLoading)
             /\ lastOp' = IF req.superseded THEN "load:settleCanceled" ELSE "load:cached"
     /\ UNCHANGED viewVars

(***************************************************************************)
(* Reactions of the acting user                                            *)
(***************************************************************************)
\* The users that can be logged in; Null is nobody (the guest bucket).
UserIds == {1}
UserKeys == {"guest", "1"}

\* userIdKey(userId)
userIdKey(userId) == IF userId # Null THEN [u \in UserIds |-> "1"][userId] ELSE "guest"

\* The empty reaction map {}: no post carries a reaction.
NoReactions == [id \in PostIds |-> "none"]

UserPostReaction == {"like", "dislike"}

\* loadReactionsForUser(userId): the reaction map afterwards
loadReactionsForUser(userId) == reactionsStorage[userIdKey(userId)]

\* The counts and the reaction toggleReaction computes from the current
\* reaction and the counts of the cached post.
NewReactions(current, reaction, likes, dislikes) ==
  IF current = reaction
  THEN [likes |-> IF reaction = "like" THEN Max(0, likes - 1) ELSE likes,
        dislikes |-> IF reaction = "like" THEN dislikes ELSE Max(0, dislikes - 1),
        reaction |-> "none"]
  ELSE LET l == IF current = "like" THEN Max(0, likes - 1) ELSE likes
           d == IF current = "dislike" THEN Max(0, dislikes - 1) ELSE dislikes
       IN [likes |-> IF reaction = "like" THEN l + 1 ELSE l,
           dislikes |-> IF reaction = "like" THEN d ELSE d + 1,
           reaction |-> reaction]

\* toggleReaction(postId, reaction) up to `await patchPostReactions(...)`.
\* Without a cache entry for the post the call returns at once.
toggleReaction(postId, reaction) ==
  LET idx == CacheIndexById(postDetailsCache, postId)
      current == userReactions[postId]
      likes == postDetailsCache[idx].post.reactions.likes
      dislikes == postDetailsCache[idx].post.reactions.dislikes
      new == NewReactions(current, reaction, likes, dislikes)
      key == userIdKey(loginUser)
  IN /\ idx # 0
     /\ postDetailsCache' =
          [postDetailsCache EXCEPT ![idx].post.reactions =
             [likes |-> new.likes, dislikes |-> new.dislikes]]
     /\ userReactions' = [userReactions EXCEPT ![postId] = new.reaction]
     /\ reactionsStorage' =
          [reactionsStorage EXCEPT ![key] = [userReactions EXCEPT ![postId] = new.reaction]]
     /\ reactReqs' = Append(reactReqs,
                            [postId |-> postId, likes |-> likes, dislikes |-> dislikes,
                             current |-> current, newLikes |-> new.likes,
                             newDislikes |-> new.dislikes, key |-> key,
                             attached |-> TRUE])
     /\ lastOp' = "react:call"
     /\ UNCHANGED <<repo, listVars, modalVars, viewVars, loginUser, coordVars, moreVars>>

\* Faulty variant of the rollback below: the reaction is removed instead of
\* put back.
RolledBackReactions_Dropped(req) == [userReactions EXCEPT ![req.postId] = "none"]

\* What the catch block of toggleReaction writes back to userReactions.
RolledBackReactions(req) == [userReactions EXCEPT ![req.postId] = req.current]

\* The continuation of toggleReaction after `await patchPostReactions(...)`.
\* ok: the repository accepted the update; otherwise the catch block runs.
ToggleReactionSettle(i, ok) ==
  LET req == reactReqs[i]
      ridx == RepoIndex(repo, req.postId)
      cidx == CacheIndexById(postDetailsCache, req.postId)
  IN /\ i \in DOMAIN reactReqs
     /\ ok => ridx # 0
     /\ reactReqs' = RemoveAt(reactReqs, i)
     /\ IF ok
        THEN /\ repo' = [repo EXCEPT ![ridx].reactions =
                           [likes |-> req.newLikes, dislikes |-> req.newDislikes]]
             /\ lastOp' = "react:ok"
             /\ UNCHANGED <<postDetailsCache, userVars>>
        ELSE /\ postDetailsCache' =
                  IF req.attached
                  THEN [postDetailsCache EXCEPT ![cidx].post.reactions =
                          [likes |-> req.likes, dislikes |-> req.dislikes]]
                  ELSE postDetailsCache
             /\ userReactions' = RolledBackReactions(req)
             /\ reactionsStorage' =
                  [reactionsStorage EXCEPT ![req.key] = RolledBackReactions(req)]
             /\ lastOp' = "react:failed"
             /\ UNCHANGED <<repo, loginUser>>
     /\ UNCHANGED <<listVars, modalVars, viewVars, coordVars, moreVars>>

\* The watcher of the logged-in user: the user changes and the reactions of
\* the new user are loaded.
UserChanges(u) ==
  /\ u # loginUser
  /\ loginUser' = u
  /\ userReactions' = loadReactionsForUser(u)
  /\ likedCommentIds' = likedStorage[userIdKey(u)]
  /\ lastOp' = "user:change"
  /\ UNCHANGED <<repo, listVars, detailVars, reactionsStorage, reactReqs, coordVars,
                 snapshotVars, editedVars, saveVars, viewState, modalNewPostDraft,
                 likedStorage, likeReqs, commentLikes>>

\* The cache entries the calls in flight hold are no longer in the cache.
DetachAll(reqs) == [i \in DOMAIN reqs |-> [reqs[i] EXCEPT !.attached = FALSE]]
Detach(reqs, id) ==
  [i \in DOMAIN reqs |->
     IF reqs[i].postId = id THEN [reqs[i] EXCEPT !.attached = FALSE] ELSE reqs[i]]

(***************************************************************************)
(* Editing and saving the post the modal shows                             *)
(***************************************************************************)
\* getter modalPost: <<>> (null) or <<the post>>
modalPost ==
  IF modalNewPostDraft # <<>> THEN modalNewPostDraft
  ELSE IF cachedEntry # 0 THEN <<postDetailsCache[cachedEntry].post>>
  ELSE <<>>

\* getter isModalNewPost
isModalNewPost == modalNewPostDraft # <<>>

Occurrences(s, x) == Cardinality({i \in DOMAIN s : s[i] = x})
SeqRange(s) == {s[i] : i \in DOMAIN s}

\* JSON.stringify([...a].sort()) === JSON.stringify([...b].sort()): the two
\* lists hold the same tags the same number of times.
tagsEqual(a, b) ==
  \A t \in SeqRange(a) \cup SeqRange(b) : Occurrences(a, t) = Occurrences(b, t)

\* getter hasUnsavedChanges
hasUnsavedChanges ==
  /\ modalPost # <<>>
  /\ \/ modalPost[1].title # originalTitle
     \/ modalPost[1].body # originalBody
     \/ ~tagsEqual(modalPost[1].tags, originalTags)

\* String(t).trim() of a tag
TrimTag(t) == IF t = " x " THEN "x" ELSE t

\* normalizeTags(tags)
RECURSIVE normalizeTags(_)
normalizeTags(tags) ==
  IF tags = <<>> THEN <<>>
  ELSE IF TrimTag(Head(tags)) = "" THEN normalizeTags(Tail(tags))
       ELSE <<TrimTag(Head(tags))>> \o normalizeTags(Tail(tags))

\* snapshotOriginal(): the snapshot <<title, body, tags>> taken of a modal
\* post mp (<<>> or <<post>>)
snapshotOriginal(mp) ==
  IF mp # <<>> THEN <<mp[1].title, mp[1].body, mp[1].tags>> ELSE <<"", "", <<>>>>

\* The modal post is replaced by the post p: the draft when there is one,
\* the post of the current cache entry otherwise.
SetModalPost(p) ==
  IF modalNewPostDraft # <<>>
  THEN modalNewPostDraft' = <<p>> /\ UNCHANGED postDetailsCache
  ELSE /\ postDetailsCache' = [postDetailsCache EXCEPT ![cachedEntry].post = p]
       /\ UNCHANGED modalNewPostDraft

\* revertEdits(): the modal post afterwards
RevertedPost(p) ==
  [p EXCEPT !.title = originalTitle, !.body = originalBody, !.tags = originalTags]
revertEdits ==
  IF modalPost # <<>> THEN SetModalPost(RevertedPost(modalPost[1]))
  ELSE UNCHANGED <<postDetailsCache, modalNewPostDraft>>

\* saveChanges(postId) up to `await patchPost(...)` in updateModalPost: the
\* saves in flight afterwards. Without a modal post it returns null.
\* mp: this.modalPost when it is called.
saveChanges(mp, postId) ==
  IF mp = <<>> THEN saveReqs
  ELSE Append(saveReqs,
              [postId |-> postId, title |-> mp[1].title, body |-> mp[1].body,
               tags |-> normalizeTags(mp[1].tags)])

\* The post the repository returns from patchPost for a save in flight.
UpdatedPost(req) ==
  [repo[RepoIndex(repo, req.postId)] EXCEPT
     !.title = req.title, !.body = req.body, !.tags = req.tags]

\* updateModalPost after `await patchPost(...)` resolved: the cache and
\* editedPostIds afterwards.
UpdatedCache(req) ==
  IF CacheIndexById(postDetailsCache, req.postId) # 0
  THEN [postDetailsCache EXCEPT
          ![CacheIndexById(postDetailsCache, req.postId)].post = UpdatedPost(req)]
  ELSE postDetailsCache
UpdatedEdited(req) ==
  IF InSeq(req.postId, editedPostIds) THEN editedPostIds
  ELSE Append(editedPostIds, req.postId)

\* Faulty variant of the operator below: the id is pushed before patchPost
\* has resolved.
EditedAfter_Always(req, ok) == UpdatedEdited(req)

\* editedPostIds after updateModalPost: the push comes after the await, so
\* a rejected patchPost skips it.
EditedAfter(req, ok) == IF ok THEN UpdatedEdited(req) ELSE editedPostIds

\* Faulty variant of updatePostInList below: the list is left as it is.
SetText_None(ps, id, t, b) == ps

\* updatePostInList(postId, { title, body }): the posts afterwards
SetText(ps, id, t, b) ==
  [i \in DOMAIN ps |->
     IF ps[i].id = id /\ \A j \in 1 .. i - 1 : ps[j].id # id
     THEN [ps[i] EXCEPT !.title = t, !.body = b] ELSE ps[i]]

\* The modal component watches modalPost and calls snapshotOriginal() when
\* the post object changes. replaced: the step put a new object in place.
ModalPostChanged(replaced) == replaced \/ modalPost' # modalPost
WatchModalPost(replaced) ==
  IF ModalPostChanged(replaced)
  THEN /\ originalTitle' = snapshotOriginal(modalPost')[1]
       /\ originalBody' = snapshotOriginal(modalPost')[2]
       /\ originalTags' = snapshotOriginal(modalPost')[3]
  ELSE UNCHANGED snapshotVars

\* The continuation of coordinator.saveAndSync(postId) after patchPost
\* settled: updateModalPost, the modal's watcher of modalPost, the rest of
\* saveChanges, updatePostInList and the rest of the modal's saveChanges.
\* ok: the repository accepted the update; otherwise the error is thrown
\* through to the modal, which shows it.
saveAndSyncSettle(i, ok) ==
  LET req == saveReqs[i]
      updated == UpdatedPost(req)
      replaced == cachedEntry # 0 /\ postDetailsCache[cachedEntry].post.id = req.postId
                  /\ modalNewPostDraft = <<>>
  IN /\ i \in DOMAIN saveReqs
     /\ ok => RepoIndex(repo, req.postId) # 0
     /\ saveReqs' = RemoveAt(saveReqs, i)
     /\ IF ok
        THEN /\ repo' = [repo EXCEPT ![RepoIndex(repo, req.postId)] = updated]
             /\ postDetailsCache' = UpdatedCache(req)
             /\ viewReqs' = IF CacheIndexById(postDetailsCache, req.postId) # 0
                            THEN Detach(viewReqs, req.postId) ELSE viewReqs
             /\ reactReqs' = IF CacheIndexById(postDetailsCache, req.postId) # 0
                             THEN Detach(reactReqs, req.postId) ELSE reactReqs
             /\ editedPostIds' = EditedAfter(req, TRUE)
             /\ editedStorage' = IF InSeq(req.postId, editedPostIds) THEN editedStorage
                                 ELSE <<UpdatedEdited(req)>>
             /\ originalTitle' = updated.title
             /\ originalBody' = updated.body
             /\ originalTags' = IF replaced THEN updated.tags ELSE originalTags
             /\ posts' = IF HasPost(posts, req.postId)
                         THEN SetText(posts, req.postId, updated.title, updated.body)
                         ELSE posts
             /\ listStorage' =
                  IF HasPost(posts, req.postId)
                  THEN StoredPostsState(SetText(posts, req.postId, updated.title, updated.body),
                                        page, query, searchField, total, totalPages)
                  ELSE listStorage
             /\ isEditing' = FALSE
             /\ lastOp' = "save:ok"
        ELSE /\ lastOp' = "save:failed"
             /\ editedPostIds' = EditedAfter(req, FALSE)
             /\ UNCHANGED <<repo, postDetailsCache, viewReqs, reactReqs, editedStorage,
                            snapshotVars, posts, listStorage, isEditing>>
     /\ UNCHANGED <<page, query, searchField, total, totalPages, isLoading, listReqs,
                    lastIssued, modalVars, viewedPostIds, viewedStorage, userVars,
                    coordVars, likeVars, createReqs, modalNewPostDraft, modalView>>

(***************************************************************************)
(* Likes of comments by the acting user                                    *)
(***************************************************************************)
\* s.filter(x => x !== id)
RECURSIVE Without(_, _)
Without(s, id) ==
  IF s = <<>> THEN <<>>
  ELSE IF Head(s) = id THEN Without(Tail(s), id)
       ELSE <<Head(s)>> \o Without(Tail(s), id)

\* cached.comments.find(c => c.id === commentId) as an index, 0 when absent
CommentIndex(comments, commentId) ==
  IF \E i \in DOMAIN comments : comments[i].id = commentId
  THEN CHOOSE i \in DOMAIN comments :
         comments[i].id = commentId /\ \A j \in 1 .. i - 1 : comments[j].id # commentId
  ELSE 0

\* toggleCommentLike(commentId) up to `await patchCommentLikes(...)`.
\* Without a current cache entry, or without the comment in it, the call
\* returns at once.
toggleCommentLike(commentId) ==
  LET idx == cachedEntry
      cidx == CommentIndex(postDetailsCache[idx].comments, commentId)
      wasLiked == InSeq(commentId, likedCommentIds)
      oldLikes == postDetailsCache[idx].comments[cidx].likes
      newLikes == IF wasLiked THEN Max(0, oldLikes - 1) ELSE oldLikes + 1
      liked == IF wasLiked THEN Without(likedCommentIds, commentId)
               ELSE Append(likedCommentIds, commentId)
      key == userIdKey(loginUser)
  IN /\ idx # 0
     /\ cidx # 0
     /\ postDetailsCache' =
          [postDetailsCache EXCEPT ![idx].comments[cidx].likes = newLikes]
     /\ likedCommentIds' = liked
     /\ likedStorage' = [likedStorage EXCEPT ![key] = liked]
     /\ likeReqs' = Append(likeReqs,
                           [commentId |-> commentId, postId |-> postDetailsCache[idx].post.id,
                            wasLiked |-> wasLiked, oldLikes |-> oldLikes,
                            newLikes |-> newLikes, key |-> key, attached |-> TRUE])
     /\ lastOp' = "like:call"
     /\ UNCHANGED <<repo, listVars, modalVars, viewVars, reactVars, coordVars,
                    snapshotVars, editedVars, saveVars, viewState, modalNewPostDraft, commentLikes>>

\* What the catch block of toggleCommentLike writes back to likedCommentIds.
RolledBackLikes(req) ==
  IF req.wasLiked THEN Append(likedCommentIds, req.commentId)
  ELSE Without(likedCommentIds, req.commentId)

\* The continuation of toggleCommentLike after `await patchCommentLikes(...)`.
\* ok: the repository accepted the update; otherwise the catch block runs.
ToggleCommentLikeSettle(i, ok) ==
  LET req == likeReqs[i]
      idx == CacheIndexById(postDetailsCache, req.postId)
      cidx == CommentIndex(postDetailsCache[idx].comments, req.commentId)
  IN /\ i \in DOMAIN likeReqs
     /\ ok => req.commentId \in DOMAIN commentLikes
     /\ likeReqs' = RemoveAt(likeReqs, i)
     /\ IF ok
        THEN /\ commentLikes' = [commentLikes EXCEPT ![req.commentId] = req.newLikes]
             /\ lastOp' = "like:ok"
             /\ UNCHANGED <<postDetailsCache, likedCommentIds, likedStorage>>
        ELSE /\ postDetailsCache' =
                  IF req.attached
                  THEN [postDetailsCache EXCEPT ![idx].comments[cidx].likes = req.oldLikes]
                  ELSE postDetailsCache
             /\ likedCommentIds' = RolledBackLikes(req)
             /\ likedStorage' = [likedStorage EXCEPT ![req.key] = RolledBackLikes(req)]
             /\ lastOp' = "like:failed"
             /\ UNCHANGED commentLikes
     /\ UNCHANGED <<repo, listVars, modalVars, viewVars, reactVars, coordVars,
                    snapshotVars, editedVars, saveVars, viewState, modalNewPostDraft>>

\* clearModalPost()
clearModalPost ==
  /\ viewReqs' = FlushViews
  /\ modalReqs' = DropCurrent(AbortCurrent(modalReqs))
  /\ modalRequestedPostId' = Null
  /\ modalPostLoading' = FALSE
  /\ modalNewPostDraft' = <<>>
  /\ modalPostPosition' = 0
  /\ lastOp' = "clear"
  /\ UNCHANGED <<postDetailsCache, viewedPostIds, viewedStorage>>

\* clearPostDetailsCache(): the cache afterwards
clearPostDetailsCache == <<>>

\* removePostFromCache(postId): the cache afterwards
removePostFromCache(cache, id) ==
  IF CacheIndexById(cache, id) # 0 THEN RemoveAt(cache, CacheIndexById(cache, id)) ELSE cache

\* s.indexOf(x), 1-based, 0 when absent
IndexOf(s, x) ==
  IF InSeq(x, s)
  THEN CHOOSE i \in DOMAIN s : s[i] = x /\ \A j \in 1 .. i - 1 : s[j] # x
  ELSE 0

\* removePostFromCache(postId): editedPostIds afterwards
removeFromEdited(ids, id) == IF InSeq(id, ids) THEN RemoveAt(ids, IndexOf(ids, id)) ELSE ids

(***************************************************************************)
(* usePostsCoordinator                                                     *)
(***************************************************************************)
\* Faulty variant of hasPrevPost: the first position has a previous one.
hasPrevPost_FromFirst == modalPostPosition > 0

\* computed hasPrevPost / hasNextPost
hasPrevPost == modalPostPosition > 1
hasNextPost == total > 0 /\ modalPostPosition < total

\* Faulty variant of the position below: the index within the page only.
GlobalPosition_PageIgnored(index) == index + 1

\* The global position openPostForModal computes for the 0-based index.
GlobalPosition(index) == (page - 1) * PageLimit + index + 1

\* openPostForModal(postId, index)
openPostForModal(postId, index) ==
  loadPostForModal(GlobalPosition(index), postId, query, searchField)

\* Faulty variant of goToNextPost: hasNextPost is not looked at.
goToNextPost_Unguarded == loadPostForModal(modalPostPosition + 1, Null, query, searchField)

\* goToPrevPost() / goToNextPost() when the step is available
goToPrevPost == hasPrevPost /\ loadPostForModal(modalPostPosition - 1, Null, query, searchField)
goToNextPost == hasNextPost /\ loadPostForModal(modalPostPosition + 1, Null, query, searchField)

CachedPositions == {postDetailsCache[i].position : i \in DOMAIN postDetailsCache} \ {Null}

\* The part of coordinator.searchPosts / refreshPosts that precedes the
\* call of the list store: the details store after clearPostDetailsCache().
ClearDetailsForNewContext ==
  /\ postDetailsCache' = clearPostDetailsCache
  /\ viewReqs' = DetachAll(viewReqs)
  /\ reactReqs' = DetachAll(reactReqs)
  /\ likeReqs' = DetachAll(likeReqs)
  /\ modalReqs' = [i \in DOMAIN modalReqs |-> [modalReqs[i] EXCEPT !.stale = TRUE]]
  /\ clearedPositions' = CachedPositions
  /\ UNCHANGED <<modalPostLoading, modalRequestedPostId, modalPostPosition,
                 viewedPostIds, viewedStorage>>

\* coordinator.searchPosts(query, field) up to the await
searchPosts(rawQuery, field) ==
  ClearDetailsForNewContext /\ ListSearchPosts(rawQuery, field)

\* coordinator.refreshPosts() up to the await
refreshPosts == ClearDetailsForNewContext /\ ListRefreshPosts

\* removePostFromList(postId): posts, total, totalPages afterwards
RemovedPosts(id) ==
  IF HasPost(posts, id) THEN RemoveAt(posts, RepoIndex(posts, id)) ELSE posts
RemovedTotal(id) == IF HasPost(posts, id) /\ total > 0 THEN total - 1 ELSE total
RemovedTotalPages(id) ==
  IF HasPost(posts, id) /\ total > 0 THEN recalculateTotalPages(total - 1) ELSE totalPages

\* coordinator.deletePost(postId) up to `await deletePostApi(postId)`
deletePostIssue(id) ==
  /\ delReqs' = Append(delReqs, [postId |-> id, totalBefore |-> total])
  /\ UNCHANGED clearedPositions

\* The continuation of coordinator.deletePost after deletePostApi settled:
\* removePostFromList, removePostFromCache, clearModalPost, the clamp of the
\* page and refreshPosts up to its await. ok: the server deleted the post.
\* The edit snapshot is left to the caller: the store does not touch it, the
\* modal's watcher of modalPost does.
deletePostSettle(i, ok) ==
  LET id == delReqs[i].postId
      clampedPage == IF page > Max(1, RemovedTotalPages(id))
                     THEN Max(1, Max(1, RemovedTotalPages(id))) ELSE page
  IN /\ i \in DOMAIN delReqs
     /\ ok => RepoIndex(repo, id) # 0
     /\ delReqs' = RemoveAt(delReqs, i)
     /\ UNCHANGED clearedPositions
     /\ IF ok
        THEN /\ repo' = RemoveAt(repo, RepoIndex(repo, id))
             \* removePostFromList
             /\ posts' = RemovedPosts(id)
             /\ total' = RemovedTotal(id)
             /\ totalPages' = RemovedTotalPages(id)
             /\ listStorage' =
                  IF HasPost(posts, id)
                  THEN StoredPostsState(RemovedPosts(id), page, query, searchField,
                                        RemovedTotal(id), RemovedTotalPages(id))
                  ELSE listStorage
             \* removePostFromCache
             /\ postDetailsCache' = removePostFromCache(postDetailsCache, id)
             /\ editedPostIds' = removeFromEdited(editedPostIds, id)
             /\ editedStorage' = IF InSeq(id, editedPostIds)
                                 THEN <<removeFromEdited(editedPostIds, id)>>
                                 ELSE editedStorage
             /\ likeReqs' = Detach(likeReqs, id)
             \* clearModalPost: its flush of the view count reads the cache
             \* after the removal
             /\ viewReqs' = FlushViewsOn(removePostFromCache(postDetailsCache, id),
                                         Detach(viewReqs, id))
             /\ modalReqs' = DropCurrent(AbortCurrent(modalReqs))
             /\ modalRequestedPostId' = Null
             /\ modalNewPostDraft' = <<>>
             /\ modalPostLoading' = FALSE
             /\ modalPostPosition' = 0
             \* page clamp and refreshPosts
             /\ page' = clampedPage
             /\ isLoading' = TRUE
             /\ listReqs' = Append(DropCurrent(AbortCurrent(listReqs)),
                                   [page |-> clampedPage, query |-> query, field |-> searchField,
                                    aborted |-> FALSE, cur |-> TRUE, del |-> <<delReqs[i]>>])
             /\ lastIssued' = <<[page |-> clampedPage, query |-> query, field |-> searchField,
                                 status |-> "pending"]>>
             /\ lastOp' = "delete:ok"
             /\ reactReqs' = Detach(reactReqs, id)
             /\ UNCHANGED <<query, searchField, viewedPostIds, viewedStorage, userVars,
                            saveVars, viewState, likedCommentIds,
                            likedStorage, commentLikes>>
        ELSE /\ lastOp' = "delete:failed"
             /\ UNCHANGED <<repo, listVars, detailVars, reactVars, editedVars, likeVars,
                            saveVars, viewState, modalNewPostDraft>>

(***************************************************************************)
(* Initial state: the stores as constructed, the repository full.          *)
(***************************************************************************)
Init ==
  /\ repo = [i \in PostIds |-> NewPost(i)]
  /\ posts = <<>>
  /\ page = 1
  /\ query = ""
  /\ searchField = "title"
  /\ total = 0
  /\ totalPages = 1
  /\ isLoading = FALSE
  /\ listStorage = <<>>
  /\ listReqs = <<>>
  /\ lastIssued = <<>>
  /\ modalPostLoading = FALSE
  /\ modalRequestedPostId = Null
  /\ modalPostPosition = 0
  /\ postDetailsCache = <<>>
  /\ viewedPostIds = <<>>
  /\ viewedStorage = <<>>
  /\ modalReqs = <<>>
  /\ viewReqs = <<>>
  /\ userReactions = NoReactions
  /\ reactionsStorage = [k \in UserKeys |-> NoReactions]
  /\ loginUser = Null
  /\ reactReqs = <<>>
  /\ delReqs = <<>>
  /\ modalNewPostDraft = <<>>
  /\ originalTitle = "" /\ originalBody = "" /\ originalTags = <<>>
  /\ editedPostIds = <<>> /\ editedStorage = <<>>
  /\ likedCommentIds = <<>>
  /\ likedStorage = [k \in UserKeys |-> <<>>]
  /\ commentLikes = [i \in PostIds |-> 0]
  /\ saveReqs = <<>> /\ likeReqs = <<>> /\ createReqs = <<>>
  /\ isEditing = FALSE /\ modalView = "closed"
  /\ clearedPositions = {}
  /\ lastOp = "init"

(***************************************************************************)
(* The list store alone: overlapping search / loadPage / refresh.          *)
(***************************************************************************)
LSearch ==
  \E q \in RawQueries, f \in FieldInputs :
    /\ ListSearchPosts(q, f)
    /\ Len(listReqs') <= MaxListReqs
    /\ lastOp' = "list:fetch"
    /\ UNCHANGED <<repo, detailVars, reactVars, coordVars, moreVars>>
LLoadPage ==
  \E n \in 1 .. MaxPage :
    /\ ListLoadPage(n)
    /\ Len(listReqs') <= MaxListReqs
    /\ lastOp' = "list:fetch"
    /\ UNCHANGED <<repo, detailVars, reactVars, coordVars, moreVars>>
LRefresh ==
  /\ ListRefreshPosts
  /\ Len(listReqs') <= MaxListReqs
  /\ lastOp' = "list:fetch"
  /\ UNCHANGED <<repo, detailVars, reactVars, coordVars, moreVars>>
LSettle ==
  \E i \in DOMAIN listReqs, o \in ListOutcomes, l \in BOOLEAN :
    /\ FetchPostsSettle(i, o, l)
    /\ lastOp' = IF listReqs[i].aborted THEN "list:settleCanceled" ELSE "list:settle"
    /\ UNCHANGED <<repo, detailVars, reactVars, coordVars, moreVars>>

NextList == LSearch \/ LLoadPage \/ LRefresh \/ LSettle
SpecList == Init /\ [][NextList]_vars

\* What the store holds after applying the response to the last fetch issued.
LastIssuedData ==
  getPosts(repo, PageLimit, lastIssued[1].page, lastIssued[1].query,
           lastIssued[1].field, TRUE)

\* C1: once every overlapping list fetch has settled, posts, total and
\* totalPages are those of the response to the last fetch issued.
C1_LastIssuedWins ==
  (listReqs = <<>> /\ lastIssued # <<>> /\ lastIssued[1].status = "ok") =>
    /\ posts = LastIssuedData.posts
    /\ total = AppliedTotal(LastIssuedData)
    /\ totalPages = AppliedTotalPages(LastIssuedData)

\* C2: the settlement of a canceled list fetch, whatever its outcome,
\* changes none of posts, page, total, totalPages, isLoading and the
\* persisted snapshot.
C2_CanceledFetchIsNoOp ==
  [][\A i \in DOMAIN listReqs :
       (listReqs[i].aborted /\
          \E o \in ListOutcomes, l \in BOOLEAN : FetchPostsSettle(i, o, l))
       => UNCHANGED <<posts, page, total, totalPages, isLoading, listStorage>>]_vars

(***************************************************************************)
(* The details store alone, called the way the coordinator calls it on a   *)
(* list that is up to date: a post is opened with its own position.        *)
(***************************************************************************)
\* 1-based index of the post in the result of the search, 0 when absent
PositionIn(r, id, q, field) == RepoIndex(Filter(r, q, field), id)

MaxPosition == MaxPosts + 1

\* The requests in flight after the step stay within the bounds.
InBounds == Len(modalReqs') <= MaxModalReqs /\ Len(viewReqs') <= MaxViewReqs

\* Outcomes of the author and comments fetches in the specifications about
\* the overlap of calls: both succeed.
ExtrasOk == {TRUE}

MOpen ==
  \E id \in PostIds :
    /\ PositionIn(repo, id, query, searchField) # 0
    /\ loadPostForModal(PositionIn(repo, id, query, searchField), id, query, searchField)
    /\ InBounds
    /\ UNCHANGED <<repo, listVars, reactVars, coordVars, moreVars>>
MNavigate ==
  \E p \in 1 .. MaxPosition :
    /\ loadPostForModal(p, Null, query, searchField)
    /\ InBounds
    /\ UNCHANGED <<repo, listVars, reactVars, coordVars, moreVars>>
MSettlePrimary ==
  \E i \in DOMAIN modalReqs, o \in ModalOutcomes :
    LoadPostSettlePrimary(i, o) /\ UNCHANGED <<repo, listVars, reactVars, coordVars, moreVars>>
MSettleExtras ==
  \E i \in DOMAIN modalReqs, userOk \in ExtrasOk, commentsOk \in ExtrasOk :
    LoadPostSettleExtras(i, userOk, commentsOk) /\ UNCHANGED <<repo, listVars, reactVars, coordVars, moreVars>>
MClear == clearModalPost /\ InBounds /\ UNCHANGED <<repo, listVars, reactVars, coordVars, restVars>>
MViewsSettle == \E i \in DOMAIN viewReqs, ok \in BOOLEAN : IncrementViewsSettle(i, ok)

NextModal ==
  \/ MOpen \/ MNavigate \/ MSettlePrimary \/ MSettleExtras \/ MClear \/ MViewsSettle
SpecModal == Init /\ [][NextModal]_vars

\* A step that runs a continuation of the i-th loadPostForModal in flight.
LoadPostSettles(i) ==
  \/ \E o \in ModalOutcomes : LoadPostSettlePrimary(i, o)
  \/ \E userOk \in ExtrasOk, commentsOk \in ExtrasOk : LoadPostSettleExtras(i, userOk, commentsOk)

\* C3: a loadPostForModal call that a later call has superseded adds no
\* cache entry and changes neither the requested post id nor the position
\* when its responses arrive.
C3_SupersededLoadAddsNothing ==
  [][\A i \in DOMAIN modalReqs :
       (modalReqs[i].superseded /\ LoadPostSettles(i))
       => UNCHANGED <<postDetailsCache, modalRequestedPostId, modalPostPosition>>]_vars

\* C3 witness: two calls overlapped, the second one was cached and became
\* current, and the first one's response arrived afterwards.
C3_Witness ==
  /\ lastOp = "load:settleCanceled"
  /\ modalReqs = <<>>
  /\ postDetailsCache # <<>>
  /\ modalRequestedPostId = postDetailsCache[Len(postDetailsCache)].post.id

\* C4: the settlement of a canceled or superseded loadPostForModal changes
\* no state of the details store: cache, requested id, position and the
\* loading flag stay as they are.
C4_CanceledLoadIsNoOp ==
  [][\A i \in DOMAIN modalReqs :
       ((modalReqs[i].aborted \/ modalReqs[i].superseded) /\ LoadPostSettles(i))
       => UNCHANGED <<postDetailsCache, modalRequestedPostId, modalPostPosition,
                      modalPostLoading>>]_vars

\* A step that is loadPostForModal(p) without an id.
NavigateTo(p) == \E q \in {query}, f \in {searchField} : loadPostForModal(p, Null, q, f)

\* C7 (as amended): when an entry is cached at position p,
\* loadPostForModal(p) without an id makes that entry's post the requested
\* post at position p, leaves the loading flag cleared and starts no fetch;
\* the one repository call it can make is the view-count update of the post
\* that was open before.
C7_CacheHitByPosition ==
  [][\A p \in 1 .. MaxPosition :
       (CacheIndexByPosition(postDetailsCache, p) # 0 /\ NavigateTo(p))
       => /\ modalRequestedPostId' =
               postDetailsCache[CacheIndexByPosition(postDetailsCache, p)].post.id
          /\ modalPostPosition' = p
          /\ modalPostLoading' = FALSE
          /\ postDetailsCache' = postDetailsCache
          /\ \A j \in DOMAIN modalReqs' : modalReqs'[j].aborted
          /\ Len(modalReqs') = Len(modalReqs)
          /\ \A j \in DOMAIN viewReqs' :
                j > Len(viewReqs) => viewReqs'[j].postId = modalRequestedPostId]_vars

\* C7 witness: a navigation by position was served from the cache.
C7_Witness ==
  /\ lastOp = "load:hitPosition"
  /\ cachedEntry # 0
  /\ postDetailsCache[cachedEntry].position = modalPostPosition

\* C7 as stated: the cache hit by position issues no repository call at all.
C7_CacheHitIssuesNoCall ==
  [][\A p \in 1 .. MaxPosition :
       (CacheIndexByPosition(postDetailsCache, p) # 0 /\ NavigateTo(p))
       => /\ modalRequestedPostId' =
               postDetailsCache[CacheIndexByPosition(postDetailsCache, p)].post.id
          /\ modalPostLoading' = FALSE
          /\ Len(modalReqs') = Len(modalReqs)
          /\ viewReqs' = viewReqs]_vars

(***************************************************************************)
(* incrementViews called directly and by the modal, calls overlapping.     *)
(***************************************************************************)
VOpen ==
  \E id \in PostIds :
    /\ PositionIn(repo, id, query, searchField) # 0
    /\ loadPostForModal(PositionIn(repo, id, query, searchField), id, query, searchField)
    /\ Len(modalReqs') <= MaxViewLoads
    /\ Len(viewReqs') <= MaxViewCalls
    /\ UNCHANGED <<repo, listVars, reactVars, coordVars, moreVars>>
VClear ==
  /\ modalRequestedPostId # Null
  /\ clearModalPost
  /\ Len(viewReqs') <= MaxViewCalls
  /\ UNCHANGED <<repo, listVars, reactVars, coordVars, restVars>>
VIncrementViews ==
  \E id \in PostIds : IncrementViewsCall(id) /\ Len(viewReqs') <= MaxViewCalls

NextViews ==
  \/ VOpen \/ VClear \/ VIncrementViews \/ MSettlePrimary \/ MSettleExtras \/ MViewsSettle
SpecViews == Init /\ [][NextViews]_vars

(***************************************************************************)
(* The coordinator over both stores: open from the list, prev / next,      *)
(* search, refresh, pagination and deletePost, with every request settling *)
(* in any order.                                                           *)
(***************************************************************************)
\* Bounds on the requests in flight under the coordinator.
MaxCoordListReqs == 1
MaxCoordModalReqs == 1
CoordModalBounds ==
  /\ Len(modalReqs') <= MaxCoordModalReqs
  /\ Len(viewReqs') <= MaxViewReqs
CoordBounds ==
  /\ Len(listReqs') <= MaxCoordListReqs
  /\ CoordModalBounds

\* A session that has already viewed every post: viewedPostIds as hydrated
\* from the session storage, so no view count update is due.
InitViewed ==
  /\ repo = [i \in PostIds |-> NewPost(i)]
  /\ posts = <<>> /\ page = 1 /\ query = "" /\ searchField = "title"
  /\ total = 0 /\ totalPages = 1 /\ isLoading = FALSE
  /\ listStorage = <<>> /\ listReqs = <<>> /\ lastIssued = <<>>
  /\ modalPostLoading = FALSE /\ modalRequestedPostId = Null /\ modalPostPosition = 0
  /\ postDetailsCache = <<>>
  /\ viewedPostIds = [i \in PostIds |-> i]
  /\ viewedStorage = [i \in PostIds |-> i]
  /\ modalReqs = <<>> /\ viewReqs = <<>> /\ delReqs = <<>>
  /\ userReactions = NoReactions
  /\ reactionsStorage = [k \in UserKeys |-> NoReactions]
  /\ loginUser = Null /\ reactReqs = <<>>
  /\ modalNewPostDraft = <<>>
  /\ originalTitle = "" /\ originalBody = "" /\ originalTags = <<>>
  /\ editedPostIds = <<>> /\ editedStorage = <<>>
  /\ likedCommentIds = <<>>
  /\ likedStorage = [k \in UserKeys |-> <<>>]
  /\ commentLikes = [i \in PostIds |-> 0]
  /\ saveReqs = <<>> /\ likeReqs = <<>> /\ createReqs = <<>>
  /\ isEditing = FALSE /\ modalView = "closed"
  /\ clearedPositions = {}
  /\ lastOp = "init"

\* A card of the list is clicked: the view shows the cards only while the
\* list is not loading.
COpen ==
  \E i \in DOMAIN posts :
    /\ ~isLoading
    /\ openPostForModal(posts[i].id, i - 1)
    /\ clearedPositions' = clearedPositions \ {GlobalPosition(i - 1)}
    /\ CoordModalBounds
    /\ UNCHANGED <<repo, listVars, reactVars, delReqs, moreVars>>
\* The previous / next buttons belong to the open modal.
CPrev ==
  /\ modalPostPosition # 0
  /\ goToPrevPost
  /\ clearedPositions' = clearedPositions \ {modalPostPosition - 1}
  /\ CoordModalBounds
  /\ UNCHANGED <<repo, listVars, reactVars, delReqs, moreVars>>
CNext ==
  /\ modalPostPosition # 0
  /\ goToNextPost
  /\ clearedPositions' = clearedPositions \ {modalPostPosition + 1}
  /\ CoordModalBounds
  /\ UNCHANGED <<repo, listVars, reactVars, delReqs, moreVars>>
CSearch ==
  \E q \in RawQueries, f \in FieldInputs :
    /\ searchPosts(q, f)
    /\ CoordBounds
    /\ lastOp' = "coord:search"
    /\ UNCHANGED <<repo, userVars, delReqs, snapshotVars, editedVars, saveVars, viewState,
                   modalNewPostDraft, likedCommentIds, likedStorage, commentLikes>>
CRefresh ==
  /\ refreshPosts
  /\ CoordBounds
  /\ lastOp' = "coord:refresh"
  /\ UNCHANGED <<repo, userVars, delReqs, snapshotVars, editedVars, saveVars, viewState,
                   modalNewPostDraft, likedCommentIds, likedStorage, commentLikes>>
CLoadPage ==
  \E n \in 1 .. MaxPage :
    /\ ListLoadPage(n)
    /\ Len(listReqs') <= MaxCoordListReqs
    /\ lastOp' = "list:fetch"
    /\ UNCHANGED <<repo, detailVars, reactVars, coordVars, moreVars>>
CDelete ==
  \E id \in PostIds :
    /\ HasPost(posts, id) \/ modalRequestedPostId = id
    /\ delReqs = <<>>
    /\ deletePostIssue(id)
    /\ lastOp' = "delete:call"
    /\ UNCHANGED <<repo, listVars, detailVars, reactVars, moreVars>>
CDeleteSettle ==
  \E i \in DOMAIN delReqs, ok \in BOOLEAN :
    deletePostSettle(i, ok) /\ CoordBounds /\ UNCHANGED snapshotVars
CClose ==
  /\ modalPostPosition # 0
  /\ clearModalPost
  /\ CoordModalBounds
  /\ UNCHANGED <<repo, listVars, reactVars, coordVars, restVars>>
CListSettle ==
  \E i \in DOMAIN listReqs, o \in ListOutcomes, l \in BOOLEAN :
    /\ FetchPostsSettle(i, o, l)
    /\ lastOp' = IF listReqs[i].aborted THEN "list:settleCanceled" ELSE "list:settle"
    /\ UNCHANGED <<repo, detailVars, reactVars, coordVars, moreVars>>

\* Opening and stepping through posts while search and refresh change the
\* search context.
NextContext ==
  \/ COpen \/ CPrev \/ CNext \/ CSearch \/ CRefresh
  \/ CListSettle \/ MSettlePrimary \/ MSettleExtras
SpecContext == InitViewed /\ [][NextContext]_vars

\* Opening and stepping through posts while posts are deleted.
NextDelete ==
  \/ COpen \/ CPrev \/ CNext \/ CLoadPage \/ CClose \/ CDelete \/ CDeleteSettle
  \/ CListSettle \/ MSettlePrimary \/ MSettleExtras
SpecDelete == InitViewed /\ [][NextDelete]_vars

\* C5: a loadPostForModal call that was in flight when search or refresh
\* cleared the cache never adds its entry to the cache.
C5_NoEntryFromBeforeClear ==
  [][\A i \in DOMAIN modalReqs :
       (modalReqs[i].stale /\ LoadPostSettles(i)) => postDetailsCache' = postDetailsCache]_vars

\* C6: search and refresh leave the cache empty when they issue the list
\* fetch, and the first loadPostForModal by a position that the clear had
\* removed issues a fetch.
C6_ClearedPositionRefetches ==
  [][/\ (lastOp' \in {"coord:search", "coord:refresh"}) =>
          (postDetailsCache' = <<>> /\ listReqs' # <<>> /\ listReqs'[Len(listReqs')].cur)
     /\ \A p \in clearedPositions :
          NavigateTo(p) =>
            /\ Len(modalReqs') = Len(modalReqs) + 1
            /\ modalReqs'[Len(modalReqs')].position = p
            /\ modalReqs'[Len(modalReqs')].postId = Null]_vars

\* The post at the 1-based index p of the result of the list's current
\* search in the repository: <<>> when there is none.
PostAtPosition(p) == getPosts(repo, 1, p, query, searchField, TRUE).posts

\* C8: every cache entry that carries a position p holds the post found at
\* index p of the current search's result in the repository.
C8_PositionsMatchRepository ==
  \A i \in DOMAIN postDetailsCache :
    postDetailsCache[i].position # Null =>
      /\ PostAtPosition(postDetailsCache[i].position) # <<>>
      /\ PostAtPosition(postDetailsCache[i].position)[1].id = postDetailsCache[i].post.id

(***************************************************************************)
(* Reactions on the post the modal shows: toggles that overlap, fail or    *)
(* succeed, while the logged-in user changes.                              *)
(***************************************************************************)
MaxReactReqs == 2
MaxLikes == 1
\* The posts opened in the modal are the first MaxReactPosts ones.
MaxReactPosts == 1

ROpen ==
  \E id \in 1 .. MaxReactPosts :
    /\ PositionIn(repo, id, query, searchField) # 0
    /\ loadPostForModal(PositionIn(repo, id, query, searchField), id, query, searchField)
    /\ CoordModalBounds
    /\ UNCHANGED <<repo, listVars, reactVars, coordVars, moreVars>>
\* onToggleReaction(reaction) of the modal: the post the modal shows
RToggle ==
  \E reaction \in UserPostReaction :
    /\ modalRequestedPostId # Null
    /\ toggleReaction(modalRequestedPostId, reaction)
    /\ Len(reactReqs') <= MaxReactReqs
    /\ \A i \in DOMAIN postDetailsCache' :
         /\ postDetailsCache'[i].post.reactions.likes <= MaxLikes
         /\ postDetailsCache'[i].post.reactions.dislikes <= MaxLikes
RToggleSettle == \E i \in DOMAIN reactReqs, ok \in BOOLEAN : ToggleReactionSettle(i, ok)
RUserChanges == \E u \in UserIds \cup {Null} : UserChanges(u)

NextReact ==
  \/ ROpen \/ MSettlePrimary \/ MSettleExtras \/ RToggle \/ RToggleSettle \/ RUserChanges
SpecReact == InitViewed /\ [][NextReact]_vars

\* C9: when the repository call of a toggleReaction fails, the counts of
\* the cached post and the reaction recorded for the post are those the call
\* found, and the persisted slice of the user is the in-memory map.
C9_RollbackRestores ==
  [][\A i \in DOMAIN reactReqs :
       ToggleReactionSettle(i, FALSE) =>
         LET req == reactReqs[i]
             cidx == CacheIndexById(postDetailsCache', req.postId)
         IN /\ req.attached =>
                 /\ cidx # 0
                 /\ postDetailsCache'[cidx].post.reactions =
                      [likes |-> req.likes, dislikes |-> req.dislikes]
            /\ userReactions'[req.postId] = req.current
            /\ reactionsStorage'[req.key] = userReactions']_vars

\* A failed toggle has put back a like that the call had taken away.
C9_Witness ==
  /\ lastOp = "react:failed"
  /\ modalRequestedPostId # Null
  /\ userReactions[modalRequestedPostId] = "like"
  /\ cachedEntry # 0
  /\ postDetailsCache[cachedEntry].post.reactions.likes = 1
  /\ reactionsStorage[userIdKey(loginUser)] = userReactions

Count(s, id) == Cardinality({i \in DOMAIN s : s[i] = id})
CountReqs(s, id) == Cardinality({i \in DOMAIN s : s[i].postId = id})

\* C10: for every post, the patchPostViews calls that are in flight or
\* that the repository has accepted number at most one (each accepted call
\* records the id as viewed once).
C10_OneViewCallPerPost ==
  \A id \in PostIds : CountReqs(viewReqs, id) + Count(viewedPostIds, id) <= 1

(***************************************************************************)
(* The three mutations that carry a repository call: the reaction to the   *)
(* post, the like of a comment and the view count, on the post the modal   *)
(* shows, in a session that has viewed nothing yet.                        *)
(***************************************************************************)
MaxLikeReqs == 1
MaxOptimisticReactReqs == 1

OToggle ==
  \E reaction \in UserPostReaction :
    /\ modalRequestedPostId # Null
    /\ toggleReaction(modalRequestedPostId, reaction)
    /\ Len(reactReqs') <= MaxOptimisticReactReqs
\* The like button of a comment of the post the modal shows.
OLike ==
  \E i \in DOMAIN postDetailsCache :
    /\ i = cachedEntry
    /\ \E c \in DOMAIN postDetailsCache[i].comments :
         toggleCommentLike(postDetailsCache[i].comments[c].id)
    /\ Len(likeReqs') <= MaxLikeReqs
OLikeSettle == \E i \in DOMAIN likeReqs, ok \in BOOLEAN : ToggleCommentLikeSettle(i, ok)

NextOptimistic ==
  \/ ROpen \/ MSettlePrimary \/ MSettleExtras \/ CClose
  \/ OToggle \/ RToggleSettle \/ OLike \/ OLikeSettle \/ MViewsSettle
SpecOptimistic == Init /\ [][NextOptimistic]_vars

\* The step issues the repository call of a toggleReaction, and the new
\* counts and reaction are in the cache, in userReactions and persisted.
ReactionAppliedAtCall ==
  Len(reactReqs') = Len(reactReqs) + 1 =>
    LET req == reactReqs'[Len(reactReqs')]
        cidx == CacheIndexById(postDetailsCache', req.postId)
    IN /\ cidx # 0
       /\ postDetailsCache'[cidx].post.reactions =
            [likes |-> req.newLikes, dislikes |-> req.newDislikes]
       /\ userReactions'[req.postId] # req.current
       /\ reactionsStorage'[req.key] = userReactions'

\* The step issues the repository call of a toggleCommentLike, and the new
\* count and membership are in the cache, in likedCommentIds and persisted.
LikeAppliedAtCall ==
  Len(likeReqs') = Len(likeReqs) + 1 =>
    LET req == likeReqs'[Len(likeReqs')]
        idx == CacheIndexById(postDetailsCache', req.postId)
        cidx == CommentIndex(postDetailsCache'[idx].comments, req.commentId)
    IN /\ idx # 0 /\ cidx # 0
       /\ postDetailsCache'[idx].comments[cidx].likes = req.newLikes
       /\ InSeq(req.commentId, likedCommentIds') = ~req.wasLiked
       /\ likedStorage'[req.key] = likedCommentIds'

\* The step issues the repository call of an incrementViews, and the new
\* count is in the cache and the post is recorded as viewed and persisted.
ViewsAppliedAtCall ==
  Len(viewReqs') = Len(viewReqs) + 1 =>
    LET req == viewReqs'[Len(viewReqs')]
        cidx == CacheIndexById(postDetailsCache', req.postId)
    IN /\ InSeq(req.postId, viewedPostIds')
       /\ viewedStorage' = <<viewedPostIds'>>
       /\ cidx # 0 => postDetailsCache'[cidx].post.views = req.currentViews + 1

\* The step is the failure of a repository call, and what the call had
\* changed holds the value the call found, in memory and persisted.
RestoredAtFailure ==
  /\ \A i \in DOMAIN reactReqs :
       ToggleReactionSettle(i, FALSE) =>
         /\ userReactions'[reactReqs[i].postId] = reactReqs[i].current
         /\ reactionsStorage'[reactReqs[i].key] = userReactions'
         /\ reactReqs[i].attached =>
              postDetailsCache'[CacheIndexById(postDetailsCache', reactReqs[i].postId)]
                .post.reactions = [likes |-> reactReqs[i].likes, dislikes |-> reactReqs[i].dislikes]
  /\ \A i \in DOMAIN likeReqs :
       ToggleCommentLikeSettle(i, FALSE) =>
         LET req == likeReqs[i]
             idx == CacheIndexById(postDetailsCache', req.postId)
         IN /\ InSeq(req.commentId, likedCommentIds') = req.wasLiked
            /\ likedStorage'[req.key] = likedCommentIds'
            /\ req.attached =>
                 postDetailsCache'[idx].comments[
                   CommentIndex(postDetailsCache'[idx].comments, req.commentId)].likes = req.oldLikes
  /\ \A i \in DOMAIN viewReqs :
       IncrementViewsSettle(i, FALSE) =>
         /\ ~InSeq(viewReqs[i].postId, viewedPostIds')
         /\ viewedStorage' = IF viewedPostIds' = <<>> /\ viewedStorage = <<>>
                              THEN <<>> ELSE <<viewedPostIds'>>

\* C11: toggleReaction, toggleCommentLike and incrementViews have applied
\* and persisted their local effect when they issue the repository call,
\* and the failure of the call puts the value the call found back, in
\* memory and persisted.
C11_OptimisticBeforeCall ==
  [][ReactionAppliedAtCall /\ LikeAppliedAtCall /\ ViewsAppliedAtCall
     /\ RestoredAtFailure]_vars

(***************************************************************************)
(* The view count of posts that other sessions have viewed before: the     *)
(* list is loaded, posts are opened from it and closed, and the view count *)
(* updates settle in any order.                                            *)
(***************************************************************************)
\* The repository's view count of post id when the session starts.
InitialViews(id) == id

InitCounted ==
  /\ repo = [i \in PostIds |-> [NewPost(i) EXCEPT !.views = InitialViews(i)]]
  /\ posts = <<>> /\ page = 1 /\ query = "" /\ searchField = "title"
  /\ total = 0 /\ totalPages = 1 /\ isLoading = FALSE
  /\ listStorage = <<>> /\ listReqs = <<>> /\ lastIssued = <<>>
  /\ modalPostLoading = FALSE /\ modalRequestedPostId = Null /\ modalPostPosition = 0
  /\ postDetailsCache = <<>>
  /\ viewedPostIds = <<>> /\ viewedStorage = <<>>
  /\ modalReqs = <<>> /\ viewReqs = <<>> /\ delReqs = <<>>
  /\ userReactions = NoReactions
  /\ reactionsStorage = [k \in UserKeys |-> NoReactions]
  /\ loginUser = Null /\ reactReqs = <<>>
  /\ modalNewPostDraft = <<>>
  /\ originalTitle = "" /\ originalBody = "" /\ originalTags = <<>>
  /\ editedPostIds = <<>> /\ editedStorage = <<>>
  /\ likedCommentIds = <<>>
  /\ likedStorage = [k \in UserKeys |-> <<>>]
  /\ commentLikes = [i \in PostIds |-> 0]
  /\ saveReqs = <<>> /\ likeReqs = <<>> /\ createReqs = <<>>
  /\ isEditing = FALSE /\ modalView = "closed"
  /\ clearedPositions = {}
  /\ lastOp = "init"

NextViewCount ==
  \/ CRefresh \/ CListSettle \/ COpen \/ CClose
  \/ MSettlePrimary \/ MSettleExtras \/ VIncrementViews \/ MViewsSettle
SpecViewCount == InitCounted /\ [][NextViewCount]_vars

\* The view count the list entry of the post shows: <<>> without an entry.
ListViews(ps, id) == IF HasPost(ps, id) THEN <<ps[RepoIndex(ps, id)].views>> ELSE <<>>

\* C12: an incrementViews call that issues a repository update sends the
\* view count the repository holds for the post plus one, and when the
\* update is accepted the cached post and the list entry of the post, where
\* there are any, show the count that was sent.
C12_ViewsSentIsCurrentPlusOne ==
  [][/\ Len(viewReqs') = Len(viewReqs) + 1 =>
          LET req == viewReqs'[Len(viewReqs')] IN
          RepoIndex(repo, req.postId) # 0 =>
            req.currentViews + 1 = repo[RepoIndex(repo, req.postId)].views + 1
     /\ \A i \in DOMAIN viewReqs :
          IncrementViewsSettle(i, TRUE) =>
            LET id == viewReqs[i].postId
                sent == viewReqs[i].currentViews + 1
                cidx == CacheIndexById(postDetailsCache', id)
            IN /\ cidx # 0 => postDetailsCache'[cidx].post.views = sent
               /\ ListViews(posts', id) \in {<<>>, <<sent>>}]_vars

(***************************************************************************)
(* The list view and the modal component over the coordinator: what the    *)
(* user can do while the modal is closed, open or being edited.            *)
(***************************************************************************)
\* computed showModalSkeleton / isFormValid / showSaveButton of the modal
showModalSkeleton == modalPostLoading \/ modalPost = <<>>
isFormValid ==
  modalPost # <<>> /\ Trim(modalPost[1].title) # "" /\ Trim(modalPost[1].body) # ""
showSaveButton ==
  isEditing /\ (IF isModalNewPost THEN isFormValid ELSE hasUnsavedChanges)
\* ref isSaving: set while createModalPost or saveAndSync is awaited
isSaving == saveReqs # <<>> \/ createReqs # <<>>
\* The post, its buttons and its fields are shown.
PostShown == modalView = "open" /\ modalPost # <<>> /\ ~showModalSkeleton

\* What the steps of the modal leave alone besides the stores they act on.
ModalFrame == UNCHANGED <<repo, listVars, reactVars, delReqs, editedVars, likeVars, saveVars>>

\* openPostModal(postId, index): a card of the list is clicked.
EOpen ==
  \E i \in DOMAIN posts :
    /\ ~isLoading
    /\ modalView = "closed"
    /\ openPostForModal(posts[i].id, i - 1)
    /\ clearedPositions' = clearedPositions \ {GlobalPosition(i - 1)}
    /\ CoordModalBounds
    /\ modalView' = "open"
    /\ ModalFrame
    /\ UNCHANGED <<isEditing, modalNewPostDraft>>
    /\ WatchModalPost(FALSE)
\* goToPrevPost() / goToNextPost() of the modal
EPrev ==
  /\ modalView = "open" /\ ~isEditing
  /\ goToPrevPost
  /\ clearedPositions' = clearedPositions \ {modalPostPosition - 1}
  /\ CoordModalBounds
  /\ ModalFrame
  /\ UNCHANGED <<viewState, modalNewPostDraft>>
  /\ WatchModalPost(FALSE)
ENext ==
  /\ modalView = "open" /\ ~isEditing
  /\ goToNextPost
  /\ clearedPositions' = clearedPositions \ {modalPostPosition + 1}
  /\ CoordModalBounds
  /\ ModalFrame
  /\ UNCHANGED <<viewState, modalNewPostDraft>>
  /\ WatchModalPost(FALSE)
ESettlePrimary ==
  \E i \in DOMAIN modalReqs, o \in ModalOutcomes :
    /\ LoadPostSettlePrimary(i, o)
    /\ ModalFrame
    /\ UNCHANGED <<clearedPositions, viewState, modalNewPostDraft>>
    /\ WatchModalPost(FALSE)
ESettleExtras ==
  \E i \in DOMAIN modalReqs, userOk \in ExtrasOk, commentsOk \in ExtrasOk :
    /\ LoadPostSettleExtras(i, userOk, commentsOk)
    /\ ModalFrame
    /\ UNCHANGED <<clearedPositions, viewState, modalNewPostDraft>>
    /\ WatchModalPost(FALSE)

\* startEdit()
EStartEdit ==
  /\ PostShown /\ ~isModalNewPost /\ ~isEditing
  /\ isEditing' = TRUE
  /\ lastOp' = "edit:start"
  /\ UNCHANGED <<repo, listVars, detailVars, reactVars, coordVars, snapshotVars, editedVars,
                 likeVars, saveVars, modalView, modalNewPostDraft>>

\* What typing into a field leaves alone.
FieldFrame ==
  /\ lastOp' = "edit:field"
  /\ UNCHANGED <<repo, listVars, modalVars, viewVars, reactVars, coordVars, snapshotVars,
                 editedVars, likeVars, saveVars, viewState>>
\* v-model of the title, the body and the tags of the post
EEditTitle ==
  \E t \in Texts :
    /\ PostShown /\ isEditing
    /\ t # modalPost[1].title
    /\ SetModalPost([modalPost[1] EXCEPT !.title = t])
    /\ FieldFrame
EEditBody ==
  \E t \in Texts :
    /\ PostShown /\ isEditing
    /\ t # modalPost[1].body
    /\ SetModalPost([modalPost[1] EXCEPT !.body = t])
    /\ FieldFrame
EEditTags ==
  \E t \in TagInputs :
    /\ PostShown /\ isEditing
    /\ t # modalPost[1].tags
    /\ SetModalPost([modalPost[1] EXCEPT !.tags = t])
    /\ FieldFrame

\* resetEditState(): the undo button
EResetEdit ==
  /\ PostShown /\ ~isModalNewPost /\ isEditing
  /\ revertEdits
  /\ isEditing' = FALSE
  /\ lastOp' = "edit:reset"
  /\ UNCHANGED <<repo, listVars, modalVars, viewVars, reactVars, coordVars, snapshotVars,
                 editedVars, likeVars, saveVars, modalView>>

\* The close button: isOpen = false
EClose ==
  /\ modalView = "open"
  /\ modalView' = "leaving"
  /\ lastOp' = "modal:close"
  /\ UNCHANGED <<repo, listVars, detailVars, reactVars, coordVars, snapshotVars, editedVars,
                 likeVars, saveVars, isEditing, modalNewPostDraft>>

\* revertEdits() on the cache: the cache afterwards
RevertedCache ==
  IF modalNewPostDraft = <<>> /\ cachedEntry # 0
  THEN [postDetailsCache EXCEPT ![cachedEntry].post = RevertedPost(modalPost[1])]
  ELSE postDetailsCache

\* onAfterLeave(): revertEdits(), clearModalPost(), isEditing = false
EAfterLeave ==
  /\ modalView = "leaving"
  /\ postDetailsCache' = RevertedCache
  /\ viewReqs' = FlushViewsOn(RevertedCache, viewReqs)
  /\ modalReqs' = DropCurrent(AbortCurrent(modalReqs))
  /\ modalRequestedPostId' = Null
  /\ modalNewPostDraft' = <<>>
  /\ modalPostLoading' = FALSE
  /\ modalPostPosition' = 0
  /\ isEditing' = FALSE
  /\ modalView' = "closed"
  /\ WatchModalPost(FALSE)
  /\ lastOp' = "clear"
  /\ Len(viewReqs') <= MaxViewReqs
  /\ UNCHANGED <<repo, listVars, viewedPostIds, viewedStorage, reactVars, coordVars,
                 editedVars, likeVars, saveVars>>

\* The post with title and body trimmed, as the modal's saveChanges leaves it
TrimmedPost(p) == [p EXCEPT !.title = Trim(p.title), !.body = Trim(p.body)]

\* saveChanges() of the modal for a post that exists, up to the await of
\* patchPost in coordinator.saveAndSync(postId)
ESave ==
  /\ PostShown /\ ~isModalNewPost
  /\ showSaveButton /\ isFormValid /\ ~isSaving
  /\ modalRequestedPostId # Null
  /\ SetModalPost(TrimmedPost(modalPost[1]))
  /\ saveReqs' = saveChanges(<<TrimmedPost(modalPost[1])>>, modalRequestedPostId)
  /\ lastOp' = "save:call"
  /\ UNCHANGED <<repo, listVars, modalVars, viewVars, reactVars, coordVars, snapshotVars,
                 editedVars, likeVars, createReqs, viewState>>
ESaveSettle == \E i \in DOMAIN saveReqs, ok \in BOOLEAN : saveAndSyncSettle(i, ok)

\* confirmDelete(): isOpen = false and coordinator.deletePost(postId) up to
\* its await
EDelete ==
  /\ PostShown /\ ~isModalNewPost /\ ~isEditing
  /\ modalRequestedPostId # Null
  /\ delReqs = <<>>
  /\ deletePostIssue(modalRequestedPostId)
  /\ modalView' = "leaving"
  /\ lastOp' = "delete:call"
  /\ UNCHANGED <<repo, listVars, detailVars, reactVars, snapshotVars, editedVars, likeVars,
                 saveVars, isEditing, modalNewPostDraft>>
EDeleteSettle ==
  \E i \in DOMAIN delReqs, ok \in BOOLEAN :
    /\ deletePostSettle(i, ok)
    /\ CoordBounds
    /\ WatchModalPost(FALSE)

\* onRefresh() and onPageChange(page) of the list view, which the open
\* modal covers
ERefresh == modalView = "closed" /\ ~isLoading /\ CRefresh
ELoadPage == modalView = "closed" /\ CLoadPage

(***************************************************************************)
(* Deleting the post the modal shows, after loading pages of the list and  *)
(* opening, stepping through and closing posts.                            *)
(***************************************************************************)
\* A session that has already viewed and edited every post: viewedPostIds
\* and editedPostIds as hydrated from the session storage.
InitEdited ==
  /\ repo = [i \in PostIds |-> NewPost(i)]
  /\ posts = <<>> /\ page = 1 /\ query = "" /\ searchField = "title"
  /\ total = 0 /\ totalPages = 1 /\ isLoading = FALSE
  /\ listStorage = <<>> /\ listReqs = <<>> /\ lastIssued = <<>>
  /\ modalPostLoading = FALSE /\ modalRequestedPostId = Null /\ modalPostPosition = 0
  /\ postDetailsCache = <<>>
  /\ viewedPostIds = [i \in PostIds |-> i]
  /\ viewedStorage = [i \in PostIds |-> i]
  /\ modalReqs = <<>> /\ viewReqs = <<>> /\ delReqs = <<>>
  /\ userReactions = NoReactions
  /\ reactionsStorage = [k \in UserKeys |-> NoReactions]
  /\ loginUser = Null /\ reactReqs = <<>>
  /\ modalNewPostDraft = <<>>
  /\ originalTitle = "" /\ originalBody = "" /\ originalTags = <<>>
  /\ editedPostIds = [i \in PostIds |-> i]
  /\ editedStorage = <<[i \in PostIds |-> i]>>
  /\ likedCommentIds = <<>>
  /\ likedStorage = [k \in UserKeys |-> <<>>]
  /\ commentLikes = [i \in PostIds |-> 0]
  /\ saveReqs = <<>> /\ likeReqs = <<>> /\ createReqs = <<>>
  /\ isEditing = FALSE /\ modalView = "closed"
  /\ clearedPositions = {}
  /\ lastOp = "init"

\* deletePost is running: its repository call or its refresh is in flight.
Deleting == delReqs # <<>> \/ \E i \in DOMAIN listReqs : listReqs[i].del # <<>>
\* What the user starts while no deletion is running.
UserStep == ELoadPage \/ EOpen \/ ENext \/ EPrev \/ EClose \/ EDelete
\* The user waits for a deletion to finish; what was started before it
\* settles at any time.
NextRemove ==
  \/ ~Deleting /\ UserStep
  \/ CListSettle \/ ESettlePrimary \/ ESettleExtras \/ EAfterLeave
  \/ EDeleteSettle
SpecRemove == InitEdited /\ [][NextRemove]_vars

\* The fetchPosts call that the i-th list request belongs to returns
\* without throwing.
FetchPostsReturns(i) ==
  \/ \E l \in BOOLEAN : FetchPostsSettle(i, "ok", l)
  \/ \E l \in BOOLEAN : searchField = "userId" /\ FetchPostsSettle(i, "notfound", l)

\* C13: when deletePost(id) completes, the post is neither in the list nor
\* in the detail cache, total is one less than it was at the call, the
\* modal is closed and editedPostIds does not hold id.
C13_DeleteRemovesEverywhere ==
  [][\A i \in DOMAIN listReqs :
       (listReqs[i].del # <<>> /\ FetchPostsReturns(i)) =>
         LET id == listReqs[i].del[1].postId IN
         /\ ~HasPost(posts', id)
         /\ CacheIndexById(postDetailsCache', id) = 0
         /\ total' = listReqs[i].del[1].totalBefore - 1
         /\ modalRequestedPostId' = Null /\ modalPostPosition' = 0
         /\ ~modalPostLoading' /\ modalNewPostDraft' = <<>>
         /\ ~InSeq(id, editedPostIds')]_vars

(***************************************************************************)
(* The navigation state of the modal: closed, loading or ready.            *)
(***************************************************************************)
NavClosed ==
  /\ modalRequestedPostId = Null /\ modalPostPosition = 0
  /\ ~modalPostLoading /\ modalNewPostDraft = <<>>
NavLoading == modalPostLoading
NavReady == ~modalPostLoading /\ modalPost # <<>>

\* C14: in every reachable state the modal is exactly one of closed (no
\* requested post, position 0, not loading), loading, or ready (not loading
\* and the current post available); a load whose primary fetch fails or
\* that finds no post at its position therefore ends closed.
C14_ClosedLoadingOrReady ==
  /\ NavClosed \/ NavLoading \/ NavReady
  /\ ~(NavClosed /\ NavReady)

\* C15: clearModalPost() cancels the detail request in flight and leaves
\* the modal closed (no requested post, position 0, not loading, no draft);
\* when the canceled request settles afterwards the modal stays closed and
\* the cache gets no entry.
C15_ClearCancelsAndCloses ==
  [][/\ lastOp' = "clear" =>
          /\ NavClosed'
          /\ \A j \in DOMAIN modalReqs' : modalReqs'[j].aborted
     /\ \A i \in DOMAIN modalReqs :
          (modalReqs[i].aborted /\ ~modalReqs[i].superseded /\ LoadPostSettles(i))
          => NavClosed' /\ UNCHANGED postDetailsCache]_vars

\* C15 witness: a load was cleared away before anything was cached, and its
\* response arrived afterwards.
C15_Witness ==
  /\ lastOp = "load:settleCanceled"
  /\ modalReqs = <<>>
  /\ postDetailsCache = <<>>
  /\ NavClosed

(***************************************************************************)
(* Creating a post from the draft of the modal                             *)
(***************************************************************************)
\* The id the server gives to the post it creates.
CreatedId == MaxPosts + 1

\* The empty draft openModalForNewPost() puts into the modal
EmptyDraft ==
  [id |-> 0, title |-> "", body |-> "", tags |-> <<>>,
   views |-> 0, reactions |-> [likes |-> 0, dislikes |-> 0]]

\* openModalForNewPost()
openModalForNewPost ==
  /\ modalReqs' = DropCurrent(AbortCurrent(modalReqs))
  /\ modalRequestedPostId' = Null
  /\ modalPostPosition' = 0
  /\ modalPostLoading' = FALSE
  /\ modalNewPostDraft' = <<EmptyDraft>>
  /\ lastOp' = "draft:open"
  /\ UNCHANGED <<postDetailsCache, viewVars>>

\* createModalPost(authorId) up to `await createPost(payload)`: with no
\* draft it returns null at once.
createModalPost(authorId) ==
  /\ modalNewPostDraft # <<>>
  /\ createReqs' =
       Append(createReqs,
              [payload |-> [modalNewPostDraft[1] EXCEPT
                              !.title = Trim(modalNewPostDraft[1].title),
                              !.body = Trim(modalNewPostDraft[1].body),
                              !.tags = normalizeTags(modalNewPostDraft[1].tags)],
               authorId |-> authorId, phase |-> "post", created |-> <<>>])
  /\ lastOp' = "create:call"

\* The continuation of createModalPost after `await createPost(payload)`:
\* the server stores the post under a new id, or the call throws.
CreatePostSettle(i, ok) ==
  LET req == createReqs[i]
      created == [req.payload EXCEPT !.id = CreatedId]
  IN /\ i \in DOMAIN createReqs
     /\ req.phase = "post"
     /\ ok => RepoIndex(repo, CreatedId) = 0
     /\ IF ok
        THEN /\ repo' = Append(repo, created)
             /\ createReqs' = [createReqs EXCEPT ![i].phase = "user", ![i].created = <<created>>]
             /\ lastOp' = "create:stored"
        ELSE /\ repo' = repo
             /\ createReqs' = RemoveAt(createReqs, i)
             /\ lastOp' = "create:failed"

\* The continuation of createModalPost after `await getUser(...)`, whose
\* failure is only logged: the created post becomes the post of the modal.
CreateUserSettle(i, userOk) ==
  LET req == createReqs[i]
      created == req.created[1]
      entry == [post |-> created, user |-> IF userOk THEN req.authorId ELSE Null,
                comments |-> <<>>, position |-> 0]
  IN /\ i \in DOMAIN createReqs
     /\ req.phase = "user"
     /\ createReqs' = RemoveAt(createReqs, i)
     /\ modalNewPostDraft' = <<>>
     /\ postDetailsCache' = Append(postDetailsCache, entry)
     /\ modalRequestedPostId' = created.id
     /\ modalPostPosition' = 0
     /\ originalTitle' = created.title
     /\ originalBody' = created.body
     /\ originalTags' = created.tags
     /\ lastOp' = "create:done"

(***************************************************************************)
(* Loads of the modal overlapping with a draft and its creation.           *)
(***************************************************************************)
MaxCreateReqs == 1
DraftFrame == UNCHANGED <<repo, listVars, reactVars, coordVars, editedVars, likeVars, viewState>>

DOpenNew ==
  /\ openModalForNewPost
  /\ DraftFrame
  /\ UNCHANGED <<snapshotVars, saveVars>>
DCreate ==
  \E authorId \in UserIds :
    /\ Len(createReqs) < MaxCreateReqs
    /\ createModalPost(authorId)
    /\ DraftFrame
    /\ UNCHANGED <<detailVars, snapshotVars, saveReqs, modalNewPostDraft>>
DCreatePostSettle ==
  \E i \in DOMAIN createReqs, ok \in BOOLEAN :
    /\ CreatePostSettle(i, ok)
    /\ UNCHANGED <<listVars, detailVars, reactVars, coordVars, snapshotVars, editedVars,
                   likeVars, viewState, saveReqs, modalNewPostDraft>>
DCreateUserSettle ==
  \E i \in DOMAIN createReqs, userOk \in BOOLEAN :
    /\ CreateUserSettle(i, userOk)
    /\ DraftFrame
    /\ UNCHANGED <<modalPostLoading, modalReqs, viewVars, saveReqs>>

NextDraft ==
  \/ MOpen \/ MSettlePrimary \/ MSettleExtras \/ MClear
  \/ DOpenNew \/ DCreate \/ DCreatePostSettle \/ DCreateUserSettle
SpecDraft == InitViewed /\ [][NextDraft]_vars

\* C16: when the primary fetch of a loadPostForModal call that was not
\* canceled fails, the call throws the error, the loading flag is cleared
\* and the cache is left as it was.
C16_PrimaryFailureSurfaces ==
  [][\A i \in DOMAIN modalReqs :
       (~modalReqs[i].aborted /\ LoadPostSettlePrimary(i, "error"))
       => /\ lastOp' = "load:failed"
          /\ ~modalPostLoading'
          /\ UNCHANGED postDetailsCache]_vars

(***************************************************************************)
(* Editing and saving the post the modal shows, and closing the modal or   *)
(* stepping to another post while the save is in flight.                   *)
(***************************************************************************)
\* The list is loaded once, before the posts are opened.
ELoadList == posts = <<>> /\ ERefresh
NextEdit ==
  \/ ELoadList \/ CListSettle
  \/ EOpen \/ ENext \/ ESettlePrimary \/ ESettleExtras
  \/ EClose \/ EAfterLeave
  \/ EStartEdit \/ EEditTitle \/ EEditTags \/ EResetEdit
  \/ ESave \/ ESaveSettle
SpecEdit == InitViewed /\ [][NextEdit]_vars

\* The posts of a list / the entries of the cache that carry the id.
ListEntries(ps, id) == {i \in DOMAIN ps : ps[i].id = id}
CacheEntries(cache, id) == {i \in DOMAIN cache : cache[i].post.id = id}

\* C17: when saveAndSync(id), called for the post the modal shows, gets the
\* updated post from the repository, the cache entry and the list entry of
\* id show the title and body that were saved, and the call resolves true.
C17_SaveAndSyncUpdatesBoth ==
  [][\A i \in DOMAIN saveReqs :
       saveAndSyncSettle(i, TRUE) =>
         LET req == saveReqs[i] IN
         /\ lastOp' = "save:ok"
         /\ CacheEntries(postDetailsCache', req.postId) # {}
         /\ \A c \in CacheEntries(postDetailsCache', req.postId) :
              /\ postDetailsCache'[c].post.title = req.title
              /\ postDetailsCache'[c].post.body = req.body
         /\ \A l \in ListEntries(posts', req.postId) :
              posts'[l].title = req.title /\ posts'[l].body = req.body]_vars

\* C17 witness: a save went through and the post, which the list shows,
\* carries the edited title in the list and in the cache.
C17_Witness ==
  /\ lastOp = "save:ok"
  /\ \E l \in DOMAIN posts :
       /\ posts[l].title = "new"
       /\ \E c \in CacheEntries(postDetailsCache, posts[l].id) :
            postDetailsCache[c].post.title = "new"

\* C18: after a save of postId succeeded the cache entry holds the post
\* the repository returned, postId is in editedPostIds and in its stored
\* copy, and the original title, body and tags are those that were saved,
\* so that hasUnsavedChanges is false.
C18_SaveRefreshesSnapshot ==
  [][\A i \in DOMAIN saveReqs :
       saveAndSyncSettle(i, TRUE) =>
         LET req == saveReqs[i]
             updated == UpdatedPost(req)
         IN /\ \A c \in CacheEntries(postDetailsCache', req.postId) :
                 postDetailsCache'[c].post = updated
            /\ InSeq(req.postId, editedPostIds')
            /\ editedStorage' # <<>> /\ InSeq(req.postId, editedStorage'[1])
            /\ originalTitle' = updated.title
            /\ originalBody' = updated.body
            /\ tagsEqual(originalTags', updated.tags)
            /\ ~hasUnsavedChanges']_vars

MaxIndex == 1

OOpenAt ==
  \E id \in PostIds, index \in 0 .. MaxIndex :
    /\ openPostForModal(id, index)
    /\ clearedPositions' = clearedPositions \ {GlobalPosition(index)}
    /\ CoordModalBounds
    /\ UNCHANGED <<repo, listVars, reactVars, delReqs, moreVars>>

NextOpen == OOpenAt \/ CSearch \/ CLoadPage \/ CListSettle \/ MSettlePrimary
SpecOpen == InitViewed /\ [][NextOpen]_vars

\* C20: openPostForModal(postId, index) calls loadPostForModal with the
\* position (page - 1) * limit + index + 1 of the list's current page and
\* limit, with postId, and with the list's current query and search field.
C20_OpenPassesGlobalPosition ==
  [][\A id \in PostIds, index \in 0 .. MaxIndex :
       openPostForModal(id, index) =>
         /\ modalPostPosition' = (page - 1) * PageLimit + index + 1
         /\ IF lastOp' = "load:fetch"
            THEN LET r == modalReqs'[Len(modalReqs')] IN
                 /\ r.position = (page - 1) * PageLimit + index + 1
                 /\ r.postId = id
                 /\ r.query = query /\ r.field = searchField
            ELSE modalRequestedPostId' = id]_vars

\* C20 witness: on page 2 of a search a post was opened at index 1 and its
\* fetch carries position 3 and the search context of the list.
C20_Witness ==
  /\ lastOp = "load:fetch"
  /\ page = 2 /\ query # ""
  /\ modalPostPosition = 3
  /\ modalReqs # <<>>
  /\ modalReqs[Len(modalReqs)].position = 3
  /\ modalReqs[Len(modalReqs)].query = query
  /\ modalReqs[Len(modalReqs)].field = searchField

\* C21: in every state hasPrevPost is true exactly when the position of
\* the modal is greater than 1, and hasNextPost exactly when total > 0 and
\* the position is less than total.
C21_PrevNextAvailability ==
  /\ hasPrevPost <=> modalPostPosition > 1
  /\ hasNextPost <=> (total > 0 /\ modalPostPosition < total)

\* C21 witness: the first of two posts is open: a next post, no previous.
C21_Witness ==
  /\ modalPostPosition = 1 /\ total = 2
  /\ modalRequestedPostId # Null /\ ~modalPostLoading
  /\ hasNextPost /\ ~hasPrevPost

(***************************************************************************)
(* goToPrevPost / goToNextPost called at any time, also when no step is    *)
(* available.                                                              *)
(***************************************************************************)
\* goToPrevPost() / goToNextPost() as a whole: `if (!hasPrevPost) return`
\* leaves everything as it is.
goToPrevPostCall ==
  \/ goToPrevPost
  \/ ~hasPrevPost /\ lastOp' = "nav:none" /\ UNCHANGED detailVars
goToNextPostCall ==
  \/ goToNextPost
  \/ ~hasNextPost /\ lastOp' = "nav:none" /\ UNCHANGED detailVars

NPrev ==
  /\ goToPrevPostCall
  /\ clearedPositions' = IF hasPrevPost THEN clearedPositions \ {modalPostPosition - 1}
                         ELSE clearedPositions
  /\ CoordModalBounds
  /\ UNCHANGED <<repo, listVars, reactVars, delReqs, moreVars>>
NNext ==
  /\ goToNextPostCall
  /\ clearedPositions' = IF hasNextPost THEN clearedPositions \ {modalPostPosition + 1}
                         ELSE clearedPositions
  /\ CoordModalBounds
  /\ UNCHANGED <<repo, listVars, reactVars, delReqs, moreVars>>

NextNavigate ==
  \/ COpen \/ NPrev \/ NNext \/ CSearch \/ CListSettle
  \/ MSettlePrimary \/ MSettleExtras \/ CClose
SpecNavigate == InitViewed /\ [][NextNavigate]_vars

\* The request loadPostForModal has just issued, if the step issued one,
\* is for position p, carries no id and the search context of the list.
IssuedFor(p) ==
  lastOp' = "load:fetch" =>
    LET r == modalReqs'[Len(modalReqs')] IN
    /\ r.position = p /\ r.postId = Null
    /\ r.query = query /\ r.field = searchField

\* C22: goToPrevPost / goToNextPost change nothing and issue no call when
\* hasPrevPost / hasNextPost is false; otherwise they call loadPostForModal
\* with position - 1 / position + 1, no id and the list's search context,
\* so that the position asked for is at least 1 and at most total.
C22_NavigationStaysInRange ==
  [][/\ (goToPrevPostCall /\ ~hasPrevPost) => UNCHANGED <<repo, listVars, detailVars>>
     /\ (goToNextPostCall /\ ~hasNextPost) => UNCHANGED <<repo, listVars, detailVars>>
     /\ (goToPrevPostCall /\ hasPrevPost) =>
          /\ modalPostPosition' = modalPostPosition - 1
          /\ modalPostPosition' >= 1
          /\ IssuedFor(modalPostPosition - 1)
     /\ (goToNextPostCall /\ hasNextPost) =>
          /\ modalPostPosition' = modalPostPosition + 1
          /\ modalPostPosition' <= total
          /\ IssuedFor(modalPostPosition + 1)]_vars

\* C22 witness: with the last post open goToNextPost was called and did
\* nothing.
C22_Witness ==
  /\ lastOp = "nav:none"
  /\ total > 0 /\ modalPostPosition = total
  /\ modalRequestedPostId # Null

(***************************************************************************)
(* Searches overlapping with loads of a later page: every fetch for page 1 *)
(* is the fetch of a search.                                               *)
(***************************************************************************)
SLoadPage ==
  \E n \in 2 .. MaxPage :
    /\ ListLoadPage(n)
    /\ Len(listReqs') <= MaxListReqs
    /\ lastOp' = "list:fetch"
    /\ UNCHANGED <<repo, detailVars, reactVars, coordVars, moreVars>>
NextSearch == LSearch \/ SLoadPage \/ LSettle
SpecSearch == Init /\ [][NextSearch]_vars

\* A step that is listStore.searchPosts(q, f) up to its await.
SearchCalled(q, f) == ListSearchPosts(q, f) /\ Len(listReqs') = Len(listReqs) + 1

\* C23: searchPosts(query, field) sets query to the trimmed query, keeps
\* the field when none is given and issues its fetch for page 1, also when
\* query and field are the current ones; when that fetch succeeds page is 1.
C23_SearchResetsToFirstPage ==
  [][/\ \A q \in RawQueries, f \in FieldInputs :
          SearchCalled(q, f) =>
            /\ query' = Trim(q)
            /\ searchField' = (IF f = "none" THEN searchField ELSE f)
            /\ page' = 1 /\ isLoading'
            /\ listReqs'[Len(listReqs')].page = 1
            /\ listReqs'[Len(listReqs')].query = Trim(q)
            /\ listReqs'[Len(listReqs')].field = searchField'
     /\ \A i \in DOMAIN listReqs :
          (listReqs[i].page = 1 /\ ~listReqs[i].aborted
             /\ \E l \in BOOLEAN : FetchPostsSettle(i, "ok", l))
          => page' = 1]_vars

(***************************************************************************)
(* The list store alone, recording how each fetchPosts call completes.     *)
(***************************************************************************)
\* The catch of fetchPosts normalises whatever the field is.
FetchPostsThrows_AnyField(i, outcome) ==
  /\ outcome # "ok"
  /\ ~(outcome = "notfound")

\* fetchPosts rejects: the catch rethrows every error, the AbortError of a
\* canceled request included, except a 404 while searchField is userId.
FetchPostsThrows(i, outcome) ==
  \/ /\ outcome # "ok"
     /\ ~(outcome # "abort" /\ outcome = "notfound" /\ searchField = "userId")
  \* saveToStorage is called in the try block and in the catch
  \/ /\ saveThrows
     /\ \/ outcome = "ok" /\ ~listReqs[i].aborted
        \/ outcome = "notfound" /\ searchField = "userId"

FSettle ==
  \E i \in DOMAIN listReqs, o \in ListOutcomes, l \in BOOLEAN :
    /\ FetchPostsSettle(i, o, l)
    /\ lastOp' = IF FetchPostsThrows(i, o) THEN "list:throw" ELSE "list:return"
    /\ UNCHANGED <<repo, detailVars, reactVars, coordVars, moreVars>>

NextFetch == LSearch \/ LLoadPage \/ LRefresh \/ FSettle
SpecFetch == Init /\ [][NextFetch]_vars

\* A step in which fetchPosts call i completes with the given outcome.
FetchSettles(i, o) ==
  /\ i \in DOMAIN listReqs
  /\ \E l \in BOOLEAN : FetchPostsSettle(i, o, l)
  /\ lastOp' = IF FetchPostsThrows(i, o) THEN "list:throw" ELSE "list:return"

\* C24: a list fetch that fails with a 404 while the search field is userId
\* does not fail: the list becomes the empty page (no posts, page 1, total
\* 0, one page) and that is persisted; a 404 under another field and any
\* other error propagate to the caller.
C24_NotFoundUnderUserId ==
  [][\A i \in DOMAIN listReqs :
       /\ (FetchSettles(i, "notfound") /\ searchField = "userId") =>
            /\ lastOp' = "list:return"
            /\ posts' = <<>> /\ page' = 1 /\ total' = 0 /\ totalPages' = 1
            /\ listStorage' = StoredPostsState(<<>>, 1, query, searchField, 0, 1)
       /\ (FetchSettles(i, "notfound") /\ searchField # "userId") =>
            lastOp' = "list:throw"
       /\ FetchSettles(i, "error") => lastOp' = "list:throw"]_vars

\* A 404 under userId has emptied a list that held posts on page 2.
C24_Witness ==
  /\ lastOp = "list:return" /\ searchField = "userId"
  /\ posts = <<>> /\ total = 0 /\ page = 1 /\ totalPages = 1
  /\ listStorage # <<>> /\ listStorage[1].posts = <<>>
  /\ lastIssued # <<>> /\ lastIssued[1].status = "failed" /\ lastIssued[1].page = 2

(***************************************************************************)
(* Searches and loads of a post for the modal, each canceled by the next   *)
(* call of its kind.                                                       *)
(***************************************************************************)
\* The catch of loadPostForModal: `throw e`, whatever the error is.
LoadPostThrows(outcome) == outcome # "ok"

\* The catch of loadPostForModal: console.error unless isAbortError(e).
LoadPostLogs(outcome) == outcome # "ok" /\ outcome # "abort"

\* The search is repeated with the query and field it has, at most one
\* canceled fetch in flight beside the current one.
KSearch ==
  /\ ListSearchPosts(query, "none")
  /\ Len(listReqs') <= MaxCancelReqs
  /\ lastOp' = "list:fetch"
  /\ UNCHANGED <<repo, detailVars, reactVars, coordVars, moreVars>>
KNavigate ==
  \E p \in 1 .. MaxCancelReqs :
    /\ loadPostForModal(p, Null, query, searchField)
    /\ InBounds
    /\ UNCHANGED <<repo, listVars, reactVars, coordVars, moreVars>>
NextCancel == KSearch \/ FSettle \/ KNavigate \/ MSettlePrimary \/ MSettleExtras
SpecCancel == Init /\ [][NextCancel]_vars

\* C25: a list fetch or a load of a post that was canceled by a newer
\* request raises no error to its caller and logs nothing, whatever its
\* request settles with.
C25_SupersededCompletesQuietly ==
  [][/\ \A i \in DOMAIN listReqs, o \in ListOutcomes :
          (listReqs[i].aborted /\ FetchSettles(i, o)) => lastOp' = "list:return"
     /\ \A i \in DOMAIN modalReqs, o \in ModalOutcomes :
          (modalReqs[i].aborted /\ LoadPostSettlePrimary(i, o))
          => (~LoadPostThrows(o) /\ ~LoadPostLogs(o))]_vars

(***************************************************************************)
(* usePostsListStore: hydration from sessionStorage                        *)
(***************************************************************************)
StoredFields == {"posts", "page", "query", "searchField", "total", "totalPages"}

\* The fields of a stored blob that are missing or of the wrong type; "json"
\* stands for a text JSON.parse rejects, or one it parses to null, so that
\* reading data.posts throws. A blob the store wrote has none.
BadOf(blob) == IF "bad" \in DOMAIN blob THEN blob.bad ELSE {}

Corrupted(blob, bad) ==
  IF bad = {} THEN blob
  ELSE [posts |-> blob.posts, page |-> blob.page, query |-> blob.query,
        searchField |-> blob.searchField, total |-> blob.total,
        totalPages |-> blob.totalPages, bad |-> bad]

\* mapPostToDto applied to a stored post: each field is read and normalised
\* on its own; the fields of a post the store wrote pass unchanged.
mapPostToDto(p) ==
  [id |-> p.id, title |-> p.title, body |-> p.body, tags |-> p.tags,
   views |-> p.views, reactions |-> [likes |-> p.reactions.likes,
                                     dislikes |-> p.reactions.dislikes]]
mapPostsListToDto(ps) == [i \in DOMAIN ps |-> mapPostToDto(ps[i])]

\* toFiniteNumber(data[name], fallback), `typeof data.query === 'string' ?
\* data.query : ''` and the test of data.searchField against SEARCH_FIELDS
RestoredField(blob, name, fallback) ==
  IF name \in BadOf(blob) THEN fallback ELSE blob[name]

\* Faulty variant of the test below: one bad field rejects the whole blob.
hydrates_AllOrNothing == listStorage # <<>> /\ BadOf(listStorage[1]) = {}

\* hydrateFromStorage returns true: an item is stored and the try block ran
\* to its end.
hydrates == listStorage # <<>> /\ "json" \notin BadOf(listStorage[1])

\* hydrateFromStorage(): the assignments of the try block; nothing when it
\* returns false.
hydrateFromStorage ==
  IF hydrates
  THEN LET data == listStorage[1] IN
       /\ posts' = (IF "posts" \in BadOf(data) THEN <<>>
                    ELSE mapPostsListToDto(data.posts))
       /\ page' = RestoredField(data, "page", 1)
       /\ query' = RestoredField(data, "query", "")
       /\ total' = RestoredField(data, "total", 0)
       /\ totalPages' = RestoredField(data, "totalPages", 1)
       /\ searchField' = RestoredField(data, "searchField", "title")
  ELSE UNCHANGED <<posts, page, query, total, totalPages, searchField>>

\* Faulty variant of ensurePostsLoaded: the fetch follows the hydration.
ensurePostsLoaded_AlwaysFetch ==
  /\ hydrateFromStorage
  /\ isLoading' = TRUE
  /\ listReqs' = Append(DropCurrent(AbortCurrent(listReqs)),
                        [page |-> page', query |-> query', field |-> searchField',
                         aborted |-> FALSE, cur |-> TRUE, del |-> <<>>])
  /\ lastIssued' = <<[page |-> page', query |-> query', field |-> searchField',
                      status |-> "pending"]>>
  /\ UNCHANGED listStorage

\* ensurePostsLoaded(): `if (this.hydrateFromStorage()) return; await
\* this.fetchPosts()`, up to the await.
ensurePostsLoaded ==
  IF hydrates
  THEN hydrateFromStorage /\ UNCHANGED <<isLoading, listStorage, listReqs, lastIssued>>
  ELSE FetchPostsIssue(page, query, searchField, FALSE)

\* removePostFromList(postId), called on its own
removePostFromList(id) ==
  /\ posts' = RemovedPosts(id)
  /\ total' = RemovedTotal(id)
  /\ totalPages' = RemovedTotalPages(id)
  /\ listStorage' = IF HasPost(posts, id)
                    THEN StoredPostsState(RemovedPosts(id), page, query, searchField,
                                          RemovedTotal(id), RemovedTotalPages(id))
                    ELSE listStorage
  /\ UNCHANGED <<page, query, searchField, isLoading, listReqs, lastIssued>>

(***************************************************************************)
(* The list store started on what an earlier session left in               *)
(* sessionStorage, whole or damaged.                                       *)
(***************************************************************************)
InitialRepo == [i \in PostIds |-> NewPost(i)]

\* What the store writes after loading the last page of all posts, and
\* after a search by user.
SnapshotOf(pg, q, f) ==
  LET data == getPosts(InitialRepo, PageLimit, pg, q, f, TRUE)
  IN StoredPostsState(data.posts, pg, q, f, AppliedTotal(data), AppliedTotalPages(data))[1]
Snapshots == {SnapshotOf(MaxPage, "", "title"), SnapshotOf(1, "1", "userId")}

BadSets == (SUBSET StoredFields) \cup {{"json"}}
StoredBlobs == {<<>>} \cup {<<Corrupted(b, bad)>> : b \in Snapshots, bad \in BadSets}

InitStored ==
  /\ repo = InitialRepo
  /\ posts = <<>> /\ page = 1 /\ query = "" /\ searchField = "title"
  /\ total = 0 /\ totalPages = 1 /\ isLoading = FALSE
  /\ listStorage \in StoredBlobs
  /\ listReqs = <<>> /\ lastIssued = <<>>
  /\ modalPostLoading = FALSE /\ modalRequestedPostId = Null /\ modalPostPosition = 0
  /\ postDetailsCache = <<>>
  /\ viewedPostIds = <<>> /\ viewedStorage = <<>>
  /\ modalReqs = <<>> /\ viewReqs = <<>>
  /\ userReactions = NoReactions
  /\ reactionsStorage = [k \in UserKeys |-> NoReactions]
  /\ loginUser = Null
  /\ reactReqs = <<>> /\ delReqs = <<>>
  /\ modalNewPostDraft = <<>>
  /\ originalTitle = "" /\ originalBody = "" /\ originalTags = <<>>
  /\ editedPostIds = <<>> /\ editedStorage = <<>>
  /\ likedCommentIds = <<>>
  /\ likedStorage = [k \in UserKeys |-> <<>>]
  /\ commentLikes = [i \in PostIds |-> 0]
  /\ saveReqs = <<>> /\ likeReqs = <<>> /\ createReqs = <<>>
  /\ isEditing = FALSE /\ modalView = "closed"
  /\ clearedPositions = {}
  /\ lastOp = "init"

HEnsure ==
  /\ listReqs = <<>>
  /\ ensurePostsLoaded
  /\ lastOp' = IF hydrates THEN "list:hydrated" ELSE "list:fetch"
  /\ UNCHANGED <<repo, detailVars, reactVars, coordVars, moreVars>>
HSearch == listReqs = <<>> /\ LSearch
HRemove ==
  \E id \in PostIds :
    /\ listReqs = <<>>
    /\ removePostFromList(id)
    /\ lastOp' = "list:remove"
    /\ UNCHANGED <<repo, detailVars, reactVars, coordVars, moreVars>>

NextHydrate == HEnsure \/ HSearch \/ HRemove \/ FSettle
SpecHydrate == InitStored /\ [][NextHydrate]_vars

\* C30: in every state of the list store, after a fetch, a hydration or a
\* removePostFromList, pagesAmount is max(1, ceil(total / limit)).
C30_PagesAmountFollowsTotal == pagesAmount = Max(1, CeilDiv(total, PageLimit))

\* Something is stored and it parses to a value whose fields can be read.
UsableStored == listStorage # <<>> /\ "json" \notin BadOf(listStorage[1])

\* C26: ensurePostsLoaded issues a fetch exactly when hydration yields no
\* usable state; when hydration succeeds no request is issued.
C26_EnsureFetchesIffNotHydrated ==
  [][ensurePostsLoaded =>
       IF UsableStored
       THEN UNCHANGED <<listReqs, isLoading, lastIssued>>
       ELSE /\ Len(listReqs') = Len(listReqs) + 1
            /\ isLoading'
            /\ listReqs'[Len(listReqs')].page = page
            /\ listReqs'[Len(listReqs')].query = query
            /\ listReqs'[Len(listReqs')].field = searchField]_vars

\* The list was restored from storage and no request is in flight.
C26_Witness ==
  /\ lastOp = "list:hydrated" /\ posts # <<>>
  /\ listReqs = <<>> /\ lastIssued = <<>> /\ ~isLoading

\* C27: hydration restores each stored field on its own: a missing or
\* wrong-typed field takes its default (no posts, page 1, empty query, field
\* title, total 0) and every valid field is restored as stored; a text that
\* does not parse leaves the state as it was.
C27_HydrationPerField ==
  [][(ensurePostsLoaded /\ listStorage # <<>>) =>
       LET data == listStorage[1] IN
       IF "json" \in BadOf(data)
       THEN UNCHANGED <<posts, page, query, searchField, total, totalPages>>
       ELSE /\ posts' = (IF "posts" \in BadOf(data) THEN <<>> ELSE data.posts)
            /\ page' = (IF "page" \in BadOf(data) THEN 1 ELSE data.page)
            /\ query' = (IF "query" \in BadOf(data) THEN "" ELSE data.query)
            /\ searchField' = (IF "searchField" \in BadOf(data) THEN "title"
                               ELSE data.searchField)
            /\ total' = (IF "total" \in BadOf(data) THEN 0 ELSE data.total)]_vars

\* The stored total was unusable: total is 0 while the posts and the page
\* are those stored.
C27_Witness ==
  /\ lastOp = "list:hydrated"
  /\ BadOf(listStorage[1]) = {"total"}
  /\ total = 0 /\ page = MaxPage /\ posts = listStorage[1].posts /\ posts # <<>>

\* A text that does not parse was found while the store held a query: the
\* query is kept and the list is fetched.
C27_WitnessUnparseable ==
  /\ lastOp = "list:fetch" /\ listStorage # <<>> /\ BadOf(listStorage[1]) = {"json"}
  /\ query = "1" /\ searchField = "userId" /\ Len(listReqs) = 1
  /\ lastIssued[1].status = "pending"

(***************************************************************************)
(* A guest views posts and then logs in: the first activation of user 1 in *)
(* the session, under whom nothing has been recorded.                      *)
(***************************************************************************)
ULogin == loginUser = Null /\ UserChanges(1)
NextLogin ==
  \/ VOpen \/ VClear \/ MSettlePrimary \/ MSettleExtras \/ MViewsSettle \/ ULogin
SpecLogin == Init /\ [][NextLogin]_vars

\* C28: editedPostIds, viewedPostIds, userReactions and likedCommentIds are
\* kept per acting user: when a user under whom nothing was recorded
\* becomes active, all four are empty.
C28_SessionSetsPerUser ==
  [][ULogin =>
       /\ viewedPostIds' = <<>>
       /\ editedPostIds' = <<>>
       /\ userReactions' = NoReactions
       /\ likedCommentIds' = <<>>]_vars

(***************************************************************************)
(* What refresh calls                                                      *)
(***************************************************************************)
\* The calls coordinator.refreshPosts() makes, in order, and the calls
\* listStore.refreshPosts() makes.
refreshPostsCalls == <<"detailsStore.clearPostDetailsCache", "listStore.refreshPosts">>
listRefreshPostsCalls == <<"this.fetchPosts">>

\* One of them tells the repository to drop the list it keeps.
DropsRepositoryCache ==
  \E i \in DOMAIN (refreshPostsCalls \o listRefreshPostsCalls) :
    (refreshPostsCalls \o listRefreshPostsCalls)[i] = "invalidateLocalPostsCache"

\* The fetch a refresh issues: the current page, query and field, which
\* stay as they are.
RefetchesCurrentPage ==
  /\ page' = page /\ query' = query /\ searchField' = searchField
  /\ Len(listReqs') = Len(listReqs) + 1
  /\ listReqs'[Len(listReqs')].page = page
  /\ listReqs'[Len(listReqs')].query = query
  /\ listReqs'[Len(listReqs')].field = searchField

\* C29: refresh tells the repository to drop its list cache and then
\* fetches the current page with the current query and field, leaving page
\* as it is.
C29_RefreshDropsCacheAndRefetches ==
  [][(refreshPosts /\ lastOp' = "coord:refresh")
       => (DropsRepositoryCache /\ RefetchesCurrentPage)]_vars

(***************************************************************************)
(* Loads of a post whose author fetch or comments fetch may fail.          *)
(***************************************************************************)
XSettleExtras ==
  \E i \in DOMAIN modalReqs, userOk \in BOOLEAN, commentsOk \in BOOLEAN :
    LoadPostSettleExtras(i, userOk, commentsOk)
      /\ UNCHANGED <<repo, listVars, reactVars, coordVars, moreVars>>

NextExtras == MOpen \/ MNavigate \/ MSettlePrimary \/ XSettleExtras \/ MClear
SpecExtras == InitViewed /\ [][NextExtras]_vars

\* C31: when the author fetch or the comments fetch of a load that was not
\* canceled fails, the post is still cached and becomes the post of the
\* modal, with author null or no comments respectively, the other part as
\* fetched, and the load does not fail.
C31_ExtrasFailIndependently ==
  [][\A i \in DOMAIN modalReqs, userOk \in BOOLEAN, commentsOk \in BOOLEAN :
       (~modalReqs[i].aborted /\ LoadPostSettleExtras(i, userOk, commentsOk)) =>
         LET post == modalReqs[i].post[1]
             added == postDetailsCache'[Len(postDetailsCache')]
         IN /\ Len(postDetailsCache') = Len(postDetailsCache) + 1
            /\ added.post = post
            /\ added.position = modalReqs[i].position
            /\ added.user = (IF userOk /\ UserIdOf(post.id) # 0
                             THEN UserIdOf(post.id) ELSE Null)
            /\ added.comments = (IF commentsOk THEN CommentsOf(post.id) ELSE <<>>)
            /\ modalRequestedPostId' = post.id
            /\ lastOp' # "load:failed"]_vars

\* The author fetch failed and the comments fetch did not: the post of the
\* modal is cached without its author and with its comments.
C31_Witness ==
  /\ lastOp = "load:cached" /\ ~modalPostLoading
  /\ \E k \in DOMAIN postDetailsCache :
       /\ postDetailsCache[k].post.id = modalRequestedPostId
       /\ UserIdOf(postDetailsCache[k].post.id) # 0
       /\ postDetailsCache[k].user = Null
       /\ postDetailsCache[k].comments # <<>>

(***************************************************************************)
(* Searches by user with a numeric and with a non-numeric query.           *)
(***************************************************************************)
UserQueries == {" 1 ", "abc"}

\* getPosts calls the backend: the route is not the empty one.
ReachesBackend(req) == resolvePostListRoute(req.query, req.field) = "remote"

\* What getPosts can settle with: emptyResponse() is returned without a
\* request, so it cannot fail.
GetPostsOutcomes(req) == IF ReachesBackend(req) THEN ListOutcomes ELSE {"ok"}

QSearch ==
  \E q \in UserQueries, f \in FieldInputs :
    /\ ListSearchPosts(q, f)
    /\ Len(listReqs') <= MaxCancelReqs
    /\ lastOp' = "list:fetch"
    /\ UNCHANGED <<repo, detailVars, reactVars, coordVars, moreVars>>
QLoadPage ==
  \E n \in 1 .. MaxPage :
    /\ ListLoadPage(n)
    /\ Len(listReqs') <= MaxCancelReqs
    /\ lastOp' = "list:fetch"
    /\ UNCHANGED <<repo, detailVars, reactVars, coordVars, moreVars>>
QSettle ==
  \E i \in DOMAIN listReqs, l \in BOOLEAN :
    \E o \in GetPostsOutcomes(listReqs[i]) :
      /\ FetchPostsSettle(i, o, l)
      /\ lastOp' = IF FetchPostsThrows(i, o) THEN "list:throw" ELSE "list:return"
      /\ UNCHANGED <<repo, detailVars, reactVars, coordVars, moreVars>>

NextUserSearch == QSearch \/ QLoadPage \/ QSettle
SpecUserSearch == Init /\ [][NextUserSearch]_vars

\* The fetch is one for field userId with a query that is not a number.
NonNumericUserFetch(req) == req.field = "userId" /\ req.query # "" /\ ~IsNumeric(req.query)
NumericUserFetch(req) == req.field = "userId" /\ IsNumeric(req.query)

InitQuota ==
  /\ repo = InitialRepo
  /\ posts = <<>> /\ page = 1 /\ query = "" /\ searchField = "title"
  /\ total = 0 /\ totalPages = 1 /\ isLoading = FALSE
  /\ listStorage = QuotaExceeded
  /\ listReqs = <<>> /\ lastIssued = <<>>
  /\ modalPostLoading = FALSE /\ modalRequestedPostId = Null /\ modalPostPosition = 0
  /\ postDetailsCache = <<>>
  /\ viewedPostIds = <<>> /\ viewedStorage = <<>>
  /\ modalReqs = <<>> /\ viewReqs = <<>>
  /\ userReactions = NoReactions
  /\ reactionsStorage = [k \in UserKeys |-> NoReactions]
  /\ loginUser = Null
  /\ reactReqs = <<>> /\ delReqs = <<>>
  /\ modalNewPostDraft = <<>>
  /\ originalTitle = "" /\ originalBody = "" /\ originalTags = <<>>
  /\ editedPostIds = <<>> /\ editedStorage = <<>>
  /\ likedCommentIds = <<>>
  /\ likedStorage = [k \in UserKeys |-> <<>>]
  /\ commentLikes = [i \in PostIds |-> 0]
  /\ saveReqs = <<>> /\ likeReqs = <<>> /\ createReqs = <<>>
  /\ isEditing = FALSE /\ modalView = "closed"
  /\ clearedPositions = {}
  /\ lastOp = "init"

\* The list is fetched while it holds no posts and no fetch is in flight.
WLoad ==
  \E f \in FieldInputs :
    /\ posts = <<>> /\ listReqs = <<>>
    /\ ListSearchPosts("", f)
    /\ lastOp' = "list:fetch"
    /\ UNCHANGED <<repo, detailVars, reactVars, coordVars, moreVars>>

NextQuota ==
  \/ WLoad \/ FSettle
  \/ VOpen \/ VClear \/ MSettlePrimary \/ MSettleExtras \/ MViewsSettle
SpecQuota == InitQuota /\ [][NextQuota]_vars

LoadCall == MOpen \/ MNavigate
UserCall == LoadCall \/ DOpenNew \/ MClear

NextLoading == MOpen \/ MNavigate \/ DOpenNew \/ MClear \/ MSettlePrimary \/ XSettleExtras
SpecLoading ==
  /\ InitViewed /\ [][NextLoading]_vars
  /\ WF_vars(MSettlePrimary) /\ WF_vars(XSettleExtras)

\* C34: when every repository call settles and the calls of the user come
\* to an end, modalPostLoading becomes false for good; and it turns true
\* only when a load is started.
C34_LoadingEndsAndStaysOff ==
  /\ ([]<><<UserCall>>_vars) \/ <>[](~modalPostLoading)
  /\ [][(~modalPostLoading /\ modalPostLoading') => LoadCall]_vars

\* A load that was canceled has settled last: no call is in flight and the
\* flag is off.
C34_Witness ==
  /\ lastOp = "load:settleCanceled"
  /\ modalReqs = <<>> /\ ~modalPostLoading
  /\ modalRequestedPostId # Null

(***************************************************************************)
(* Overlapping toggleReaction calls on the post the modal shows, by one    *)
(* user; the repository handles the updates in the order they were sent.   *)
(***************************************************************************)
TSettleInOrder ==
  \E ok \in BOOLEAN : reactReqs # <<>> /\ ToggleReactionSettle(1, ok)

NextOverlap == ROpen \/ MSettlePrimary \/ MSettleExtras \/ RToggle \/ TSettleInOrder
SpecOverlap == InitViewed /\ [][NextOverlap]_vars

\* The reaction of the user that the counts of a post stand for, the counts
\* starting at zero.
ReactionOf(reactions) ==
  IF reactions.likes > 0 THEN "like"
  ELSE IF reactions.dislikes > 0 THEN "dislike" ELSE "none"

\* C35: once every toggleReaction call has settled, the counts of each
\* cached post and the reaction recorded for it are those of the last
\* update the repository accepted (the original ones when it accepted
\* none), also when one of two overlapping calls failed.
C35_RollbackKeepsOtherToggle ==
  reactReqs = <<>> =>
    \A k \in DOMAIN postDetailsCache :
      LET id == postDetailsCache[k].post.id
          stored == repo[RepoIndex(repo, id)].reactions
      IN /\ postDetailsCache[k].post.reactions = stored
         /\ userReactions[id] = ReactionOf(stored)

\* ---------------------------------------------------------------------------
\* The persisted reaction slices when the user changes during a toggle
\* ---------------------------------------------------------------------------

\* The modal opens any post of the repository.
SOpen ==
  \E id \in PostIds :
    /\ PositionIn(repo, id, query, searchField) # 0
    /\ loadPostForModal(PositionIn(repo, id, query, searchField), id, query, searchField)
    /\ CoordModalBounds
    /\ UNCHANGED <<repo, listVars, reactVars, coordVars, moreVars>>

\* The like button of the modal
SLike ==
  /\ modalRequestedPostId # Null
  /\ toggleReaction(modalRequestedPostId, "like")
  /\ Len(reactReqs') <= MaxReactReqs
  /\ \A i \in DOMAIN postDetailsCache' : postDetailsCache'[i].post.reactions.likes <= MaxLikes

NextSlices ==
  \/ SOpen \/ MSettlePrimary \/ MSettleExtras \/ SLike \/ RToggleSettle \/ ULogin
SpecSlices == InitViewed /\ [][NextSlices]_vars

\* The slice of key k changes at post p in this step.
SliceChanges(k, p) == reactionsStorage'[k][p] # reactionsStorage[k][p]

\* A toggleReaction call made under key k for post p is issued or settles
\* in this step.
ToggleOf(k, p) ==
  \/ \E i \in DOMAIN reactReqs : reactReqs[i].key = k /\ reactReqs[i].postId = p
  \/ \E i \in DOMAIN reactReqs' : reactReqs'[i].key = k /\ reactReqs'[i].postId = p

\* C36: each user's persisted reaction slice only ever contains what was
\* recorded while that user was the active user: an entry of the slice of a
\* user changes only by a toggle that user made for that post (its optimistic
\* write or its rollback), also when the active user changes while the
\* repository call is in flight and the call then fails.
C36_SlicesHoldOwnRecords ==
  [][\A k \in UserKeys : \A p \in PostIds : SliceChanges(k, p) => ToggleOf(k, p)]_vars

\* ---------------------------------------------------------------------------
\* The list after a fetch that failed
\* ---------------------------------------------------------------------------

\* The page of the repository the held page, query and field stand for.
HeldPage == getPosts(repo, PageLimit, page, query, searchField, TRUE).posts

\* The 404 branch of the catch of fetchPosts has emptied the list: the
\* backend knows no such user.
NotFoundApplied == searchField = "userId" /\ posts = <<>> /\ page = 1 /\ total = 0

\* C37: whenever no list fetch is in flight (and a response has been applied
\* before), the posts held by the list are the repository's page `page` for
\* the held query and field; a loadPage(n) or search whose fetch fails does
\* not leave page, query or field changed while the posts are those of the
\* previous request.
C37_PostsMatchHeldRequest ==
  (listReqs = <<>> /\ listStorage # <<>>) => (posts = HeldPage \/ NotFoundApplied)

\* ---------------------------------------------------------------------------
\* Deleting the post the modal shows, in a session that has not viewed it
\* ---------------------------------------------------------------------------
NextDeleted ==
  \/ VOpen \/ MSettlePrimary \/ MSettleExtras \/ CDelete \/ CDeleteSettle
  \/ CListSettle \/ MViewsSettle
SpecDeleted == Init /\ [][NextDeleted]_vars

\* The patchPostViews calls in flight that target post id.
ViewUpdatesFor(reqs, id) == {i \in DOMAIN reqs : reqs[i].postId = id}

\* This step issues a repository update of the view count of post id.
IssuesViewUpdate(id) ==
  Cardinality(ViewUpdatesFor(viewReqs', id)) > Cardinality(ViewUpdatesFor(viewReqs, id))

\* C38: once deletePost(id) has deleted the post in the repository, no
\* further repository update targeting id is issued, the view count update
\* that closing the modal triggers included.
C38_NoUpdateAfterDelete ==
  [][\A id \in PostIds : RepoIndex(repo', id) = 0 => ~IssuesViewUpdate(id)]_vars

============================================================================
